---- MODULE Spec2Model ----
(***************************************************************************)
(* Recording lifecycle of whisper-clipboard.                               *)
(*                                                                         *)
(* ManualAudioRecorder (src/whisperclipboard/manual_audio_recorder.py):    *)
(* controller threads call start_recording / stop_recording /              *)
(* cancel_recording; every accepted start spawns one _recording_worker     *)
(* thread.  Each Python statement that touches shared state is one step;   *)
(* a device read and the append of its frame, which no check separates,    *)
(* are one step.                                                           *)
(*                                                                         *)
(* AudioRecorder (src/audio_recorder.py): the controller calls             *)
(* start_listening / stop_listening / force_stop_recording, the stream     *)
(* thread runs _audio_callback for every chunk; a body under               *)
(* "with self.lock" is one step.  A callback handed to a fresh thread      *)
(* counts as invoked where the thread is started.                          *)
(*                                                                         *)
(* Time in the stream thread is counted in chunk periods: a chunk arrives  *)
(* one period after the chunk before it.  VoiceRecorder                    *)
(* (src/whisperclipboard/recorder.py) owns a ManualAudioRecorder, follows  *)
(* it through the two callbacks and guards its calls with its own          *)
(* is_recording.                                                           *)
(*                                                                         *)
(* The hotkey front-ends (HotkeyHandler of src/hotkey_handler.py wired to  *)
(* a ManualAudioRecorder by WhisperDictate, and the pynput listener of the *)
(* VoiceRecorder) run their handlers one at a time on the keyboard         *)
(* listener thread; the call a handler makes on the recorder is made by    *)
(* that thread as controller thread 1.  Every utterance of the             *)
(* VoiceRecorder is processed by a _process_audio thread of its own, and   *)
(* WhisperTranscriber._load_model                                          *)
(* (src/whisperclipboard/transcriber.py) is called by MaxLoaders threads.  *)
(*                                                                         *)
(* A process constructs one of the two recorders.  A behaviour holds at    *)
(* most MaxCalls calls and MaxCalls sessions; session k of the manual      *)
(* recorder is captured by worker thread k.  With two controller threads   *)
(* one call of the budget is taken as made.                                *)
(***************************************************************************)
EXTENDS Integers, Sequences, FiniteSets, TLC

\* ---------------------------------------------------------------- bounds
MaxCalls == 4         \* calls of start / stop / cancel in a behaviour
MaxFrames == 2        \* frames the device delivers in a behaviour, the calls
                      \* of a worker thread it fails included
FrameSize == 2        \* samples per frame (chunk_size of the configuration)
MaxTicks == 6         \* chunks the stream thread is handed in a behaviour
SilenceTimeout == 1   \* silence_timeout, in chunk periods
MaxDevices == 4       \* audio devices of the platform, at most
MaxDuration == 1      \* max_duration handed to start_listening, in chunk
                      \* periods
MaxLoaders == 3       \* threads that call WhisperTranscriber._load_model

Threads == 1..MaxCalls
AllCallers == {1, 2}
Loaders == 1..MaxLoaders
NoLoader == 0                  \* the lock is free
Recorders == {"ManualAudioRecorder", "AudioRecorder"}
NoThread == 0                  \* None
NoStream == 0                  \* None
NotSignalled == -1
NoTime == -1                   \* None
\* an Optional[int] is the set of its integer: None is the empty set
NoDevice == {}
\* values of config['device_index']
DeviceIndexes == {NoDevice} \cup {{i} : i \in -2..(MaxDevices + 1)}

VARIABLES
    recorder,              \* the recorder class the process constructed
    callers,               \* controller threads that issue calls
    device_index,          \* self.device_index
    device_count,          \* self.pyaudio.get_device_count()
    voice_is_recording,    \* VoiceRecorder.is_recording
    cleaned,               \* sessions that were running when cleanup() was
                           \* called
    is_recording,          \* self.is_recording
    audio_buffer,          \* self.audio_buffer: frames in append order
    recording_thread,      \* self.recording_thread
    stop_recording_event,  \* self.stop_recording_event
    stream,                \* self.stream
    openStreams,           \* device streams opened and not yet closed
    wpc,                   \* position of each _recording_worker thread
    wk,                    \* frames read so far by each live worker thread
    cpc,                   \* position of each controller thread
    csid,                  \* session the controller's current call acts on
    cjoin,                 \* thread a controller is joining
    cret,                  \* value returned by the controller's last call
    ncalls,                \* calls made so far
    nsess,                 \* starts accepted so far
    nframes,               \* frames delivered and worker calls failed by the
                           \* device so far
    cur,                   \* session whose start last set is_recording
    timedOut,              \* live threads whose join(timeout=2.0) timed out
    after_stop,            \* per live worker thread: frames it has read since
                           \* stop_recording_event was set for its session
                           \* (NotSignalled before that)
    read_fault,            \* sessions whose worker thread left its loop because
                           \* a read raised on an open stream, since the last
                           \* accepted start
    callback_errors,       \* callbacks whose exception the recorder has logged
    cancelled,             \* sessions for which a cancel was accepted
    delivered,             \* on_recording_stop calls since the last accepted
                           \* start, oldest first
    starts_since_stop,     \* on_recording_start calls since the last
                           \* on_recording_stop call or cancel
    is_listening,          \* AudioRecorder.is_listening
    audio_data,            \* AudioRecorder.audio_data
    silence_start_time,    \* AudioRecorder.silence_start_time
    now,                   \* time.time() in the stream thread, in chunk
                           \* periods: the chunks it has been handed so far
    cbpc,                  \* position of the stream thread in _audio_callback
    front,                 \* the hotkey front-end of the process, if any
    hooks,                 \* hooks installed in the keyboard library
    is_active,             \* HotkeyHandler.is_active
    hotkey_is_recording,   \* HotkeyHandler.is_recording
    hotkey_pressed,        \* VoiceRecorder.hotkey_pressed
    hkpc,                  \* position of the keyboard listener thread
    hkcall,                \* calls made before the listener thread entered
                           \* its current handler
    keys,                  \* key events handled so far, oldest first
    invoked,               \* start and stop actions the front-end has
                           \* invoked, oldest first
    cbthreads,             \* callback threads the AudioRecorder has started
                           \* and whose target has not begun to run
    begun,                 \* callbacks of the AudioRecorder that have begun
                           \* to run, in the order they began
    ppc,                   \* position of the _process_audio thread of each
                           \* session
    clipboard,             \* session whose text pyperclip.copy put on the
                           \* clipboard last (0: none)
    model,                 \* WhisperTranscriber.model
    model_load_lock,       \* the thread that holds model_load_lock
    is_loading,            \* WhisperTranscriber.is_loading
    whisper_device,        \* WhisperTranscriber.device
    lpc,                   \* position of each thread in _load_model
    lret,                  \* what _load_model returned to each thread
    nloads                 \* calls of whisper.load_model that returned a
                           \* model

vars == <<recorder, callers, device_index, device_count,
          voice_is_recording, cleaned, is_recording, audio_buffer, recording_thread,
          stop_recording_event, stream, openStreams, wpc, wk, cpc,
          csid, cjoin, cret, ncalls, nsess, nframes, cur, timedOut,
          after_stop, read_fault, callback_errors, cancelled,
          delivered, starts_since_stop,
          is_listening, audio_data, silence_start_time, now, cbpc,
          front, hooks, is_active, hotkey_is_recording, hotkey_pressed,
          hkpc, hkcall, keys, invoked, cbthreads, begun, ppc, clipboard,
          model, model_load_lock, is_loading, whisper_device, lpc, lret,
          nloads>>

\* self.* of the recorder
recorderVars == <<is_recording, audio_buffer, recording_thread,
                  stop_recording_event, stream, openStreams>>
workerVars == <<wpc, wk, timedOut, after_stop, nframes>>
history == <<cancelled, delivered, starts_since_stop>>
\* self.* of AudioRecorder that ManualAudioRecorder does not have
vadVars == <<is_listening, audio_data, silence_start_time, now, cbpc>>
\* self.* of the hotkey front-end and the thread its handlers run on
hotkeyVars == <<front, hooks, is_active, hotkey_is_recording,
                hotkey_pressed, hkpc, hkcall, keys, invoked>>
\* what no step of a recorder touches
\* self.* of the WhisperTranscriber and the threads inside _load_model
loaderVars == <<model, model_load_lock, is_loading, whisper_device, lpc,
                lret, nloads>>
outside == <<hotkeyVars, begun, loaderVars>>
\* what no step of the ManualAudioRecorder touches
config == <<recorder, callers, device_index, device_count, cleaned,
            vadVars, cbthreads, outside>>
\* the _process_audio threads of the VoiceRecorder and what they write
pipeline == <<ppc, clipboard>>
\* ... and what only its callbacks touch
process == <<config, voice_is_recording, pipeline>>
\* ... and what only a failed read, the start of a session or a callback
\* that raises changes
fixed == <<process, read_fault, callback_errors>>

\* ------------------------------------------------------------ pure parts

\* A frame read by worker t as its k-th read (a chunk of session t handed
\* to the stream thread as its k-th chunk).
Frame(t, k) == [tid |-> t, k |-> k]

\* np.frombuffer(audio_data): the FrameSize samples of a frame; sample i of
\* the k-th read of thread t carries the running index (k-1)*FrameSize + i.
Samples(f) == [i \in 1..FrameSize |-> <<f.tid, (f.k - 1) * FrameSize + i>>]

\* seeded fault: the chunks are joined last first
RECURSIVE ConcatenateReversed(_)
ConcatenateReversed(buf) ==
    IF buf = <<>> THEN <<>>
    ELSE ConcatenateReversed(Tail(buf)) \o Samples(Head(buf))

\* np.concatenate(self.audio_buffer)
RECURSIVE Concatenate(_)
Concatenate(buf) ==
    IF buf = <<>> THEN <<>>
    ELSE Samples(Head(buf)) \o Concatenate(Tail(buf))

\* the call self.on_recording_stop(combined_audio) made for session s, with
\* the buffer that was concatenated
Utterance(s, buf, a) == [sid |-> s, frames |-> buf, audio |-> a]

\* what the call op of a controller returned ("-" while it runs)
Returned(op, val) == [op |-> op, val |-> val]

\* the history counters tell 0, 1 and "2 or more" apart
CountTo2(n) == IF n < 2 THEN n + 1 ELSE n

\* threading.Thread.is_alive()
Alive(t) == t \in Threads /\ wpc[t] \notin {"unborn", "done"}

\* the thread is inside a device call (open, read, stop_stream/close): the
\* only places where it can stay for the 2.0 seconds of a join timeout
Blocked(t) == t \in Threads /\ wpc[t] \in {"open", "read", "finally"}

\* ----------------------------------------------------------------- Init

InitRecorder ==
    /\ is_recording = FALSE
    /\ audio_buffer = <<>>
    /\ recording_thread = NoThread
    /\ stop_recording_event = FALSE
    /\ stream = NoStream
    /\ openStreams = {}
    /\ wpc = [t \in Threads |-> "unborn"]
    /\ wk = [t \in Threads |-> 0]
    /\ csid = [c \in AllCallers |-> 0]
    /\ cjoin = [c \in AllCallers |-> NoThread]
    /\ cret = [c \in AllCallers |-> Returned("-", "-")]
    /\ ncalls = Cardinality(callers) - 1
    /\ nsess = 0
    /\ nframes = 0
    /\ cur = 0
    /\ timedOut = {}
    /\ after_stop = [t \in Threads |-> NotSignalled]
    /\ read_fault = {}
    /\ callback_errors = {}
    /\ voice_is_recording = FALSE
    /\ cleaned = {}
    /\ cancelled = {}
    /\ delivered = <<>>
    /\ starts_since_stop = 0
    /\ is_listening = FALSE
    /\ audio_data = <<>>
    /\ silence_start_time = NoTime
    /\ now = 0
    /\ cbpc = "idle"
    /\ hotkey_is_recording = FALSE
    /\ hotkey_pressed = FALSE
    /\ hkpc = "idle"
    /\ hkcall = 0
    /\ keys = <<>>
    /\ invoked = <<>>
    /\ cbthreads = {}
    /\ begun = <<>>
    /\ ppc = [s \in Threads |-> "unborn"]
    /\ clipboard = 0
    /\ model = "None"
    /\ model_load_lock = NoLoader
    /\ is_loading = FALSE
    /\ lpc = [t \in Loaders |-> "idle"]
    /\ lret = [t \in Loaders |-> "-"]
    /\ nloads = 0

\* the process has no hotkey front-end
NoFrontEnd ==
    /\ front = "none"
    /\ hooks = {}
    /\ is_active = FALSE

\* __init__ has returned; the configuration names no device
Configured ==
    /\ cpc = [c \in AllCallers |-> "idle"]
    /\ device_index = NoDevice
    /\ device_count = 1
    /\ whisper_device = "cpu"

Constructed == Configured /\ NoFrontEnd

Init ==
    recorder \in Recorders /\ callers = {1} /\ InitRecorder /\ Constructed
InitConc ==
    /\ recorder = "ManualAudioRecorder"
    /\ callers = AllCallers
    /\ InitRecorder
    /\ Constructed

\* __init__ is about to call _initialize_audio: the configuration names any
\* device or none, the platform has any number of devices
InitDevices ==
    /\ recorder \in Recorders
    /\ callers = {1}
    /\ InitRecorder
    /\ cpc = [c \in AllCallers |-> IF c = 1 THEN "_initialize_audio"
                                   ELSE "idle"]
    /\ device_index \in DeviceIndexes
    /\ device_count \in 0..MaxDevices
    /\ whisper_device = "cpu"
    /\ NoFrontEnd

\* if self.device_index is not None: if self.device_index >= device_count:
\* self.device_index = None
ValidatedDeviceIndex(index, count) ==
    IF index # NoDevice /\ (\E i \in index : i >= count)
    THEN NoDevice ELSE index

\* self.pyaudio = pyaudio.PyAudio(); the device index is validated
_initialize_audio(c) ==
    /\ cpc[c] = "_initialize_audio"
    /\ device_index' = ValidatedDeviceIndex(device_index, device_count)
    /\ cpc' = [cpc EXCEPT ![c] = "idle"]
    /\ UNCHANGED <<recorder, callers, device_count, voice_is_recording,
                   pipeline,
                   cleaned, vadVars, cbthreads, outside,
                   recorderVars,
                   workerVars, csid, cjoin, cret, ncalls, nsess, cur,
                   read_fault, callback_errors, history>>

\* ------------------------------------------------------ _recording_worker

workerFrame == <<fixed, is_recording, recording_thread, cpc, csid, cjoin,
                 cret, ncalls, nsess, cur, history>>

\* a device call of a worker thread raises: one more answer of the device
DeviceRaises == nframes < MaxFrames /\ nframes' = nframes + 1

\* self.stream = self.pyaudio.open(...)
worker_open(t) ==
    /\ wpc[t] = "open"
    /\ stream' = t
    /\ openStreams' = openStreams \cup {t}
    /\ wpc' = [wpc EXCEPT ![t] = "check"]
    /\ UNCHANGED <<workerFrame, audio_buffer, stop_recording_event, wk,
                   timedOut, after_stop, nframes>>

\* self.pyaudio.open raises: control passes to the finally block with
\* self.stream untouched
worker_open_fails(t) ==
    /\ wpc[t] = "open"
    /\ DeviceRaises
    /\ wpc' = [wpc EXCEPT ![t] = "finally"]
    /\ UNCHANGED <<workerFrame, audio_buffer, stop_recording_event, stream,
                   openStreams, wk, timedOut, after_stop>>

\* while not self.stop_recording_event.is_set():
worker_check(t) ==
    /\ wpc[t] = "check"
    /\ wpc' = [wpc EXCEPT ![t] =
                 IF stop_recording_event THEN "finally" ELSE "read"]
    /\ UNCHANGED <<workerFrame, audio_buffer, stop_recording_event, stream,
                   openStreams, wk, timedOut, after_stop, nframes>>

\* audio_data = self.stream.read(...) returns a frame;
\* audio_chunk = np.frombuffer(audio_data); self.audio_buffer.append(audio_chunk)
\* (the read touches no shared state, so read and append are one step)
worker_read(t) ==
    /\ wpc[t] = "read"
    /\ stream \in openStreams
    /\ nframes < MaxFrames
    /\ nframes' = nframes + 1
    /\ wk' = [wk EXCEPT ![t] = @ + 1]
    /\ audio_buffer' = Append(audio_buffer, Frame(t, wk[t] + 1))
    /\ after_stop' = [after_stop EXCEPT ![t] =
                        IF @ = NotSignalled THEN @ ELSE CountTo2(@)]
    /\ wpc' = [wpc EXCEPT ![t] = "check"]
    /\ UNCHANGED <<workerFrame, stop_recording_event, stream, openStreams,
                   timedOut>>

\* self.stream.read(...) returns a frame after the device has delivered the
\* MaxFrames frames of the behaviour: the loop goes on as after any read; the
\* frame, appended like the others, is beyond what audio_buffer records
worker_read_unrecorded(t) ==
    /\ wpc[t] = "read"
    /\ stream \in openStreams
    /\ nframes >= MaxFrames
    /\ after_stop' = [after_stop EXCEPT ![t] =
                        IF @ = NotSignalled THEN @ ELSE CountTo2(@)]
    /\ wpc' = [wpc EXCEPT ![t] = "check"]
    /\ UNCHANGED <<workerFrame, audio_buffer, stop_recording_event, stream,
                   openStreams, wk, timedOut, nframes>>

\* self.stream.read raises because self.stream is None by now (the finally
\* block of another worker thread closed the stream and reset the field):
\* break
worker_read_closed(t) ==
    /\ wpc[t] = "read"
    /\ stream \notin openStreams
    /\ wpc' = [wpc EXCEPT ![t] = "finally"]
    /\ UNCHANGED <<workerFrame, audio_buffer, stop_recording_event, stream,
                   openStreams, wk, timedOut, after_stop, nframes>>

\* self.stream.read raises on an open stream (device error): break
worker_read_fails(t) ==
    /\ wpc[t] = "read"
    /\ stream \in openStreams
    /\ DeviceRaises
    /\ wpc' = [wpc EXCEPT ![t] = "finally"]
    /\ read_fault' = read_fault \cup {t}
    /\ UNCHANGED <<process, is_recording, recording_thread, cpc, csid, cjoin,
                   cret, ncalls, nsess, cur, history, audio_buffer,
                   stop_recording_event, stream, openStreams, wk, timedOut,
                   after_stop, callback_errors>>

\* the thread ends
Terminated(t) ==
    /\ wpc' = [wpc EXCEPT ![t] = "done"]
    /\ wk' = [wk EXCEPT ![t] = 0]
    /\ timedOut' = timedOut \ {t}
    /\ after_stop' = [after_stop EXCEPT ![t] = NotSignalled]

\* finally: if self.stream: stop_stream(); close(); self.stream = None
worker_finally(t) ==
    /\ wpc[t] = "finally"
    /\ IF stream \in openStreams
       THEN /\ stream' = NoStream
            /\ openStreams' = openStreams \ {stream}
       ELSE /\ stream = NoStream
            /\ UNCHANGED <<stream, openStreams>>
    /\ Terminated(t)
    /\ UNCHANGED <<workerFrame, audio_buffer, stop_recording_event, nframes>>

\* stop_stream() or close() raises (device error, or the stream was closed
\* by another worker): logged, self.stream keeps its value
worker_finally_fails(t) ==
    /\ wpc[t] = "finally"
    /\ stream # NoStream
    /\ DeviceRaises
    /\ Terminated(t)
    /\ UNCHANGED <<workerFrame, audio_buffer, stop_recording_event, stream,
                   openStreams>>

\* -------------------------------------------------------- start_recording

\* left alone by the step that begins a stop or a cancel
ctlFrame == <<fixed, wk, timedOut, after_stop, nsess, nframes>>
\* left alone by every later step of a call
stepFrame == <<fixed, wk, timedOut, after_stop, nsess, nframes,
               ncalls>>
\* left alone by a step that calls on_recording_start or on_recording_stop,
\* which VoiceRecorder sets to its _on_recording_start and
\* _on_recording_stop
callbackFrame == <<config, read_fault, callback_errors, wk, timedOut,
                   after_stop, nsess, nframes, ncalls>>
raisedFrame == <<config, read_fault, wk, timedOut, after_stop, nsess,
                 nframes, ncalls>>

\* a call is made
Call(c) ==
    /\ c \in callers
    /\ cpc[c] = "idle"
    /\ ncalls < MaxCalls
    /\ ncalls' = ncalls + 1

\* ... on the ManualAudioRecorder
ManualCall(c) == recorder = "ManualAudioRecorder" /\ Call(c)

\* seeded fault: start_recording without its is_recording check
start_recording_unchecked(c) ==
    /\ ManualCall(c)
    /\ is_recording
    /\ nsess' = nsess + 1
    /\ csid' = [csid EXCEPT ![c] = nsess + 1]
    /\ delivered' = <<>>
    /\ read_fault' = {}
    /\ cret' = [cret EXCEPT ![c] = Returned("start_recording", "-")]
    /\ cpc' = [cpc EXCEPT ![c] = "start_clear"]
    /\ UNCHANGED <<recorderVars, cjoin, cur, process, workerVars,
                   callback_errors,
                   cancelled, starts_since_stop>>

\* if self.is_recording: return False
start_recording_rejected(c) ==
    /\ ManualCall(c)
    /\ is_recording
    /\ cret' = [cret EXCEPT ![c] = Returned("start_recording", "False")]
    /\ UNCHANGED <<recorderVars, workerVars, cpc, csid, cjoin, nsess, cur,
                   fixed, history>>

\* the check passes: a new session begins
start_recording_accepted(c) ==
    /\ ManualCall(c)
    /\ ~is_recording
    /\ nsess' = nsess + 1
    /\ csid' = [csid EXCEPT ![c] = nsess + 1]
    /\ delivered' = <<>>
    /\ read_fault' = {}
    /\ cret' = [cret EXCEPT ![c] = Returned("start_recording", "-")]
    /\ cpc' = [cpc EXCEPT ![c] = "start_clear"]
    /\ UNCHANGED <<recorderVars, cjoin, cur, process, workerVars,
                   callback_errors,
                   cancelled, starts_since_stop>>

\* self.audio_buffer.clear()
start_recording_clear(c) ==
    /\ cpc[c] = "start_clear"
    /\ audio_buffer' = <<>>
    /\ cpc' = [cpc EXCEPT ![c] = "start_event"]
    /\ UNCHANGED <<is_recording, recording_thread, stop_recording_event,
                   stream, openStreams, wpc, csid, cjoin, cret, cur,
                   stepFrame, history>>

\* self.stop_recording_event.clear()
start_recording_event(c) ==
    /\ cpc[c] = "start_event"
    /\ stop_recording_event' = FALSE
    /\ cpc' = [cpc EXCEPT ![c] = "start_flag"]
    /\ UNCHANGED <<is_recording, audio_buffer, recording_thread, stream,
                   openStreams, wpc, csid, cjoin, cret, cur, stepFrame,
                   history>>

\* self.is_recording = True
start_recording_flag(c) ==
    /\ cpc[c] = "start_flag"
    /\ is_recording' = TRUE
    /\ cur' = csid[c]
    /\ cpc' = [cpc EXCEPT ![c] = "start_thread"]
    /\ UNCHANGED <<audio_buffer, recording_thread, stop_recording_event,
                   stream, openStreams, wpc, csid, cjoin, cret, stepFrame,
                   history>>

\* self.recording_thread = threading.Thread(target=self._recording_worker);
\* self.recording_thread.start()
start_recording_thread(c) ==
    /\ cpc[c] = "start_thread"
    /\ recording_thread' = csid[c]
    /\ wpc' = [wpc EXCEPT ![csid[c]] = "open"]
    /\ cpc' = [cpc EXCEPT ![c] = "start_callback"]
    /\ UNCHANGED <<is_recording, audio_buffer, stop_recording_event, stream,
                   openStreams, csid, cjoin, cret, cur, stepFrame, history>>

\* self.on_recording_start(); return True
start_recording_callback(c) ==
    /\ cpc[c] = "start_callback"
    /\ starts_since_stop' = CountTo2(starts_since_stop)
    /\ voice_is_recording' = TRUE
    /\ cret' = [cret EXCEPT ![c] = Returned("start_recording", "True")]
    /\ cpc' = [cpc EXCEPT ![c] = "idle"]
    /\ csid' = [csid EXCEPT ![c] = 0]
    /\ UNCHANGED pipeline
    /\ UNCHANGED <<recorderVars, wpc, cjoin, cur, callbackFrame, cancelled,
                   delivered>>

\* self.on_recording_start() raises: except Exception as e:
\* self.logger.error(...); return True
start_recording_callback_raises(c) ==
    /\ cpc[c] = "start_callback"
    /\ starts_since_stop' = CountTo2(starts_since_stop)
    /\ callback_errors' = callback_errors \cup {"on_recording_start"}
    /\ voice_is_recording' \in {voice_is_recording, TRUE}
    /\ cret' = [cret EXCEPT ![c] = Returned("start_recording", "True")]
    /\ cpc' = [cpc EXCEPT ![c] = "idle"]
    /\ csid' = [csid EXCEPT ![c] = 0]
    /\ UNCHANGED pipeline
    /\ UNCHANGED <<recorderVars, wpc, cjoin, cur, raisedFrame, cancelled,
                   delivered>>

\* self.on_recording_start() never returns: the call is made on the
\* controller thread, which stays in it
start_recording_callback_hangs(c) ==
    /\ cpc[c] = "start_callback"
    /\ starts_since_stop' = CountTo2(starts_since_stop)
    /\ voice_is_recording' \in {voice_is_recording, TRUE}
    /\ cpc' = [cpc EXCEPT ![c] = "start_callback_hung"]
    /\ UNCHANGED pipeline
    /\ UNCHANGED <<recorderVars, wpc, csid, cjoin, cret, cur, callbackFrame,
                   cancelled, delivered>>

\* --------------------------------------- steps shared by stop and cancel

\* self.stop_recording_event.set()
signal_stop(c, here, next) ==
    /\ cpc[c] = here
    /\ stop_recording_event' = TRUE
    /\ after_stop' = [t \in Threads |->
                        IF t = csid[c] /\ Alive(t) /\ after_stop[t] = NotSignalled
                        THEN 0 ELSE after_stop[t]]
    /\ cpc' = [cpc EXCEPT ![c] = next]
    /\ UNCHANGED <<is_recording, audio_buffer, recording_thread, stream,
                   openStreams, wpc, csid, cjoin, cret, cur, fixed, wk,
                   timedOut, nsess, nframes, ncalls, history>>

\* seeded fault: stop and cancel leave is_recording as it is
clear_flag_kept(c, here, next) ==
    /\ cpc[c] = here
    /\ cpc' = [cpc EXCEPT ![c] = next]
    /\ UNCHANGED <<is_recording, audio_buffer, recording_thread,
                   stop_recording_event, stream, openStreams, wpc, csid,
                   cjoin, cret, cur, stepFrame, history>>

\* self.is_recording = False
clear_flag(c, here, next) ==
    /\ cpc[c] = here
    /\ is_recording' = FALSE
    /\ cpc' = [cpc EXCEPT ![c] = next]
    /\ UNCHANGED <<audio_buffer, recording_thread, stop_recording_event,
                   stream, openStreams, wpc, csid, cjoin, cret, cur,
                   stepFrame, history>>

\* if self.recording_thread: self.recording_thread.join(timeout=2.0)
\* the call is made: the Thread object is read
join_begin(c, here, wait, next) ==
    /\ cpc[c] = here
    /\ cjoin' = [cjoin EXCEPT ![c] = recording_thread]
    /\ cpc' = [cpc EXCEPT ![c] =
                 IF recording_thread = NoThread THEN next ELSE wait]
    /\ UNCHANGED <<recorderVars, wpc, csid, cret, cur, stepFrame, history>>

\* join returns because the thread has terminated
join_returns(c, here, next) ==
    /\ cpc[c] = here
    /\ ~Alive(cjoin[c])
    /\ cpc' = [cpc EXCEPT ![c] = next]
    /\ cjoin' = [cjoin EXCEPT ![c] = NoThread]
    /\ UNCHANGED <<recorderVars, workerVars, csid, cret, ncalls, nsess, cur,
                   fixed, history>>

\* seeded fault: join() without a timeout returns only when the thread has
\* terminated
join_without_timeout(c, here, next) ==
    /\ cpc[c] = here
    /\ ~Alive(cjoin[c])
    /\ cpc' = [cpc EXCEPT ![c] = next]
    /\ cjoin' = [cjoin EXCEPT ![c] = NoThread]
    /\ UNCHANGED <<recorderVars, workerVars, csid, cret, ncalls, nsess, cur,
                   fixed, history>>

\* join returns because 2.0 seconds have passed; the thread is alive
join_times_out(c, here, next) ==
    /\ cpc[c] = here
    /\ Blocked(cjoin[c])
    /\ timedOut' = timedOut \cup {cjoin[c]}
    /\ cpc' = [cpc EXCEPT ![c] = next]
    /\ cjoin' = [cjoin EXCEPT ![c] = NoThread]
    /\ UNCHANGED <<recorderVars, wpc, wk, after_stop, nframes, csid, cret,
                   ncalls, nsess, cur, fixed, history>>

\* --------------------------------------------------------- stop_recording

\* seeded fault: stop_recording without its is_recording check
stop_recording_unchecked(c) ==
    /\ ManualCall(c)
    /\ ~is_recording
    /\ csid' = [csid EXCEPT ![c] = cur]
    /\ cret' = [cret EXCEPT ![c] = Returned("stop_recording", "-")]
    /\ cpc' = [cpc EXCEPT ![c] = "stop_signal"]
    /\ UNCHANGED <<recorderVars, wpc, cjoin, cur, ctlFrame, history>>

\* if not self.is_recording: return False
stop_recording_rejected(c) ==
    /\ ManualCall(c)
    /\ ~is_recording
    /\ cret' = [cret EXCEPT ![c] = Returned("stop_recording", "False")]
    /\ UNCHANGED <<recorderVars, workerVars, cpc, csid, cjoin, nsess, cur,
                   fixed, history>>

\* the check passes
stop_recording_accepted(c) ==
    /\ ManualCall(c)
    /\ is_recording
    /\ csid' = [csid EXCEPT ![c] = cur]
    /\ cret' = [cret EXCEPT ![c] = Returned("stop_recording", "-")]
    /\ cpc' = [cpc EXCEPT ![c] = "stop_signal"]
    /\ UNCHANGED <<recorderVars, wpc, cjoin, cur, ctlFrame, history>>

stop_recording_signal(c) == signal_stop(c, "stop_signal", "stop_flag")
stop_recording_flag(c) == clear_flag(c, "stop_flag", "stop_join")
stop_recording_join(c) == join_begin(c, "stop_join", "stop_wait", "stop_test")
stop_recording_joined(c) == join_returns(c, "stop_wait", "stop_test")
stop_recording_join_timeout(c) == join_times_out(c, "stop_wait", "stop_test")

\* if self.audio_buffer: ... else: return False
stop_recording_test(c) ==
    /\ cpc[c] = "stop_test"
    /\ IF audio_buffer # <<>>
       THEN /\ cpc' = [cpc EXCEPT ![c] = "stop_concat"]
            /\ UNCHANGED <<cret, csid>>
       ELSE /\ cpc' = [cpc EXCEPT ![c] = "idle"]
            /\ cret' = [cret EXCEPT ![c] = Returned("stop_recording", "False")]
            /\ csid' = [csid EXCEPT ![c] = 0]
    /\ UNCHANGED <<recorderVars, wpc, cjoin, cur, stepFrame, cancelled,
                   delivered, starts_since_stop>>

\* combined_audio = np.concatenate(self.audio_buffer);
\* self.on_recording_stop(combined_audio), which in the VoiceRecorder sets
\* is_recording and starts a thread with target _process_audio; return True
\* (np.concatenate of a list emptied meanwhile raises: logged, return False)
stop_recording_concat(c) ==
    /\ cpc[c] = "stop_concat"
    /\ IF audio_buffer # <<>>
       THEN /\ delivered' = Append(delivered,
                                   Utterance(csid[c], audio_buffer,
                                             Concatenate(audio_buffer)))
            /\ starts_since_stop' = 0
            /\ voice_is_recording' = FALSE
            /\ ppc' = [ppc EXCEPT ![csid[c]] = "transcribe"]
            /\ cret' = [cret EXCEPT ![c] = Returned("stop_recording", "True")]
       ELSE /\ cret' = [cret EXCEPT ![c] = Returned("stop_recording", "False")]
            /\ UNCHANGED <<delivered, starts_since_stop, voice_is_recording,
                           ppc>>
    /\ UNCHANGED clipboard
    /\ cpc' = [cpc EXCEPT ![c] = "idle"]
    /\ csid' = [csid EXCEPT ![c] = 0]
    /\ UNCHANGED <<recorderVars, wpc, cjoin, cur, callbackFrame, cancelled>>

\* seeded fault: the exception of on_recording_stop reaches the handler of
\* the whole of stop_recording: logged, return False
stop_recording_callback_propagates(c) ==
    /\ cpc[c] = "stop_concat"
    /\ audio_buffer # <<>>
    /\ delivered' = Append(delivered,
                           Utterance(csid[c], audio_buffer,
                                     Concatenate(audio_buffer)))
    /\ starts_since_stop' = 0
    /\ callback_errors' = callback_errors \cup {"on_recording_stop"}
    /\ voice_is_recording' \in {voice_is_recording, FALSE}
    /\ cret' = [cret EXCEPT ![c] = Returned("stop_recording", "False")]
    /\ cpc' = [cpc EXCEPT ![c] = "idle"]
    /\ csid' = [csid EXCEPT ![c] = 0]
    /\ UNCHANGED pipeline
    /\ UNCHANGED <<recorderVars, wpc, cjoin, cur, raisedFrame, cancelled>>

\* combined_audio = np.concatenate(self.audio_buffer);
\* self.on_recording_stop(combined_audio) raises: except Exception as e:
\* self.logger.error(...); return True
stop_recording_callback_raises(c) ==
    /\ cpc[c] = "stop_concat"
    /\ audio_buffer # <<>>
    /\ delivered' = Append(delivered,
                           Utterance(csid[c], audio_buffer,
                                     Concatenate(audio_buffer)))
    /\ starts_since_stop' = 0
    /\ callback_errors' = callback_errors \cup {"on_recording_stop"}
    /\ voice_is_recording' \in {voice_is_recording, FALSE}
    /\ cret' = [cret EXCEPT ![c] = Returned("stop_recording", "True")]
    /\ cpc' = [cpc EXCEPT ![c] = "idle"]
    /\ csid' = [csid EXCEPT ![c] = 0]
    /\ UNCHANGED pipeline
    /\ UNCHANGED <<recorderVars, wpc, cjoin, cur, raisedFrame, cancelled>>

\* self.on_recording_stop(combined_audio) never returns: the call is made
\* on the controller thread, which stays in it
stop_recording_callback_hangs(c) ==
    /\ cpc[c] = "stop_concat"
    /\ audio_buffer # <<>>
    /\ delivered' = Append(delivered,
                           Utterance(csid[c], audio_buffer,
                                     Concatenate(audio_buffer)))
    /\ starts_since_stop' = 0
    /\ voice_is_recording' \in {voice_is_recording, FALSE}
    /\ cpc' = [cpc EXCEPT ![c] = "stop_callback_hung"]
    /\ UNCHANGED pipeline
    /\ UNCHANGED <<recorderVars, wpc, csid, cjoin, cret, cur, callbackFrame,
                   cancelled>>

\* ------------------------------------------------------- cancel_recording

\* seeded fault: cancel_recording without its is_recording check
cancel_recording_unchecked(c) ==
    /\ ManualCall(c)
    /\ ~is_recording
    /\ csid' = [csid EXCEPT ![c] = cur]
    /\ cret' = [cret EXCEPT ![c] = Returned("cancel_recording", "-")]
    /\ cpc' = [cpc EXCEPT ![c] = "cancel_signal"]
    /\ UNCHANGED <<recorderVars, wpc, cjoin, cur, ctlFrame, history>>

\* if not self.is_recording: return
cancel_recording_rejected(c) ==
    /\ ManualCall(c)
    /\ ~is_recording
    /\ cret' = [cret EXCEPT ![c] = Returned("cancel_recording", "None")]
    /\ UNCHANGED <<recorderVars, workerVars, cpc, csid, cjoin, nsess, cur,
                   fixed, history>>

\* the check passes
cancel_recording_accepted(c) ==
    /\ ManualCall(c)
    /\ is_recording
    /\ csid' = [csid EXCEPT ![c] = cur]
    /\ cret' = [cret EXCEPT ![c] = Returned("cancel_recording", "-")]
    /\ cpc' = [cpc EXCEPT ![c] = "cancel_signal"]
    /\ cancelled' = cancelled \cup {cur}
    /\ UNCHANGED <<recorderVars, wpc, cjoin, cur, ctlFrame, delivered,
                   starts_since_stop>>

cancel_recording_signal(c) == signal_stop(c, "cancel_signal", "cancel_flag")
cancel_recording_flag(c) == clear_flag(c, "cancel_flag", "cancel_join")
cancel_recording_join(c) ==
    join_begin(c, "cancel_join", "cancel_wait", "cancel_clear")
cancel_recording_joined(c) == join_returns(c, "cancel_wait", "cancel_clear")
cancel_recording_join_timeout(c) ==
    join_times_out(c, "cancel_wait", "cancel_clear")

\* seeded fault: cancel_recording hands the buffer to on_recording_stop
\* before it clears it
cancel_recording_drains(c) ==
    /\ cpc[c] = "cancel_clear"
    /\ delivered' = IF audio_buffer # <<>>
                    THEN Append(delivered,
                                Utterance(csid[c], audio_buffer,
                                          Concatenate(audio_buffer)))
                    ELSE delivered
    /\ voice_is_recording' = (voice_is_recording /\ audio_buffer = <<>>)
    /\ audio_buffer' = <<>>
    /\ cret' = [cret EXCEPT ![c] = Returned("cancel_recording", "None")]
    /\ cpc' = [cpc EXCEPT ![c] = "idle"]
    /\ csid' = [csid EXCEPT ![c] = 0]
    /\ starts_since_stop' = 0
    /\ UNCHANGED <<is_recording, recording_thread, stop_recording_event,
                   stream, openStreams, wpc, cjoin, cur, callbackFrame,
                   cancelled, pipeline>>

\* self.audio_buffer.clear()
cancel_recording_clear(c) ==
    /\ cpc[c] = "cancel_clear"
    /\ audio_buffer' = <<>>
    /\ cret' = [cret EXCEPT ![c] = Returned("cancel_recording", "None")]
    /\ cpc' = [cpc EXCEPT ![c] = "idle"]
    /\ csid' = [csid EXCEPT ![c] = 0]
    /\ starts_since_stop' = 0
    /\ UNCHANGED <<is_recording, recording_thread, stop_recording_event,
                   stream, openStreams, wpc, cjoin, cur, stepFrame, cancelled,
                   delivered>>

\* ---------------------------------------------------------- AudioRecorder

\* the stream opened by start_listening, served by the stream thread
CallbackStream == 1

\* what no step of the AudioRecorder touches
vadFixed == <<recorder, callers, device_index, device_count,
              voice_is_recording, pipeline, cleaned, outside, audio_buffer,
              recording_thread,
              stop_recording_event, wpc, wk, csid, cjoin, timedOut,
              after_stop, read_fault, callback_errors>>
\* ... except the step that takes a voice chunk
vadFrame == <<vadFixed, nframes, cbthreads>>

\* threading.Thread(target=self.on_recording_start or
\* self.on_recording_stop, daemon=True) of session s, started
CallbackThread(cb, s) == [cb |-> cb, sid |-> s]

\* a call is made on the AudioRecorder
VadCall(c) == recorder = "AudioRecorder" /\ Call(c)

\* with self.lock: if not self.is_recording: return; self.is_recording =
\* False; self.silence_start_time = None; if self.audio_data: combined_audio
\* = np.concatenate(list(self.audio_data)); self.audio_data.clear();
\* Thread(target=self.on_recording_stop, args=(combined_audio,)).start()
_stop_recording_internal ==
    IF ~is_recording
    THEN UNCHANGED <<is_recording, silence_start_time, audio_data, delivered,
                     starts_since_stop, cbthreads>>
    ELSE /\ is_recording' = FALSE
         /\ silence_start_time' = NoTime
         /\ IF audio_data # <<>>
            THEN /\ delivered' = Append(delivered,
                                        Utterance(cur, audio_data,
                                                  Concatenate(audio_data)))
                 /\ audio_data' = <<>>
                 /\ starts_since_stop' = 0
                 /\ cbthreads' = cbthreads \cup
                        {CallbackThread("on_recording_stop", cur)}
            ELSE UNCHANGED <<audio_data, delivered, starts_since_stop,
                             cbthreads>>

\* if self.is_listening: return
start_listening_rejected(c) ==
    /\ VadCall(c)
    /\ is_listening
    /\ cret' = [cret EXCEPT ![c] = Returned("start_listening", "None")]
    /\ UNCHANGED <<vadFrame, is_recording, stream, openStreams, cpc, nsess,
                   cur, history, vadVars>>

\* self.vad_threshold = vad_threshold; self.silence_timeout =
\* silence_timeout (max_duration is stored nowhere);
\* self.stream = self.pyaudio.open(..., stream_callback=self._audio_callback,
\* start=False); self.is_listening = True; self.stream.start_stream()
start_listening_accepted(c) ==
    /\ VadCall(c)
    /\ ~is_listening
    /\ stream' = CallbackStream
    /\ openStreams' = openStreams \cup {CallbackStream}
    /\ is_listening' = TRUE
    /\ cret' = [cret EXCEPT ![c] = Returned("start_listening", "None")]
    /\ UNCHANGED <<vadFrame, is_recording, cpc, nsess, cur, history,
                   audio_data, silence_start_time, now, cbpc>>

\* self.pyaudio.open raises: self.cleanup() finds is_listening false and
\* terminates PyAudio; the exception is raised again
start_listening_open_fails(c) ==
    /\ VadCall(c)
    /\ ~is_listening
    /\ cret' = [cret EXCEPT ![c] = Returned("start_listening", "raise")]
    /\ UNCHANGED <<vadFrame, is_recording, stream, openStreams, cpc, nsess,
                   cur, history, vadVars>>

\* if not self.is_listening: return
stop_listening_rejected(c) ==
    /\ VadCall(c)
    /\ ~is_listening
    /\ cret' = [cret EXCEPT ![c] = Returned("stop_listening", "None")]
    /\ UNCHANGED <<vadFrame, is_recording, stream, openStreams, cpc, nsess,
                   cur, history, vadVars>>

\* the check passes; if self.is_recording: (read without the lock)
stop_listening_accepted(c) ==
    /\ VadCall(c)
    /\ is_listening
    /\ cret' = [cret EXCEPT ![c] = Returned("stop_listening", "-")]
    /\ cpc' = [cpc EXCEPT ![c] =
                 IF is_recording THEN "listen_internal" ELSE "listen_close"]
    /\ UNCHANGED <<vadFrame, is_recording, stream, openStreams, nsess, cur,
                   history, vadVars>>

\* self._stop_recording_internal()
stop_listening_internal(c) ==
    /\ cpc[c] = "listen_internal"
    /\ _stop_recording_internal
    /\ cpc' = [cpc EXCEPT ![c] = "listen_close"]
    /\ UNCHANGED <<vadFixed, nframes, stream, openStreams, cret, ncalls, nsess, cur,
                   cancelled, is_listening, now, cbpc>>

\* self.stream.stop_stream(); self.stream.close(); self.stream = None;
\* self.is_listening = False
stop_listening_close(c) ==
    /\ cpc[c] = "listen_close"
    /\ openStreams' = openStreams \ {stream}
    /\ stream' = NoStream
    /\ is_listening' = FALSE
    /\ cret' = [cret EXCEPT ![c] = Returned("stop_listening", "None")]
    /\ cpc' = [cpc EXCEPT ![c] = "idle"]
    /\ UNCHANGED <<vadFrame, is_recording, ncalls, nsess, cur, history,
                   audio_data, silence_start_time, now, cbpc>>

\* stop_stream() or close() raises: logged; finally: self.stream = None;
\* self.is_listening = False
stop_listening_close_fails(c) ==
    /\ cpc[c] = "listen_close"
    /\ stream' = NoStream
    /\ is_listening' = FALSE
    /\ cret' = [cret EXCEPT ![c] = Returned("stop_listening", "None")]
    /\ cpc' = [cpc EXCEPT ![c] = "idle"]
    /\ UNCHANGED <<vadFrame, is_recording, openStreams, ncalls, nsess, cur,
                   history, audio_data, silence_start_time, now, cbpc>>

\* seeded fault: force_stop_recording leaves audio_data as it is
force_stop_recording_keeps_buffer(c) ==
    /\ VadCall(c)
    /\ IF is_recording
       THEN /\ is_recording' = FALSE
            /\ UNCHANGED audio_data
            /\ silence_start_time' = NoTime
            /\ cancelled' = cancelled \cup {cur}
            /\ starts_since_stop' = 0
       ELSE UNCHANGED <<is_recording, audio_data, silence_start_time,
                        cancelled, starts_since_stop>>
    /\ cret' = [cret EXCEPT ![c] = Returned("force_stop_recording", "None")]
    /\ UNCHANGED <<vadFrame, stream, openStreams, cpc, nsess, cur, delivered,
                   is_listening, now, cbpc>>

\* with self.lock: if self.is_recording: self.is_recording = False;
\* self.audio_data.clear(); self.silence_start_time = None
force_stop_recording(c) ==
    /\ VadCall(c)
    /\ IF is_recording
       THEN /\ is_recording' = FALSE
            /\ audio_data' = <<>>
            /\ silence_start_time' = NoTime
            /\ cancelled' = cancelled \cup {cur}
            /\ starts_since_stop' = 0
       ELSE UNCHANGED <<is_recording, audio_data, silence_start_time,
                        cancelled, starts_since_stop>>
    /\ cret' = [cret EXCEPT ![c] = Returned("force_stop_recording", "None")]
    /\ UNCHANGED <<vadFrame, stream, openStreams, cpc, nsess, cur, delivered,
                   is_listening, now, cbpc>>

\* seeded fault: a voice chunk leaves the silence timer running
_handle_voice_detected_keeps_timer ==
    /\ recorder = "AudioRecorder"
    /\ cbpc = "idle"
    /\ CallbackStream \in openStreams
    /\ nframes < MaxFrames
    /\ nframes' = nframes + 1
    /\ now < MaxTicks
    /\ now' = now + 1
    /\ IF ~is_recording
       THEN /\ nsess < MaxCalls
            /\ is_recording' = TRUE
            /\ nsess' = nsess + 1
            /\ cur' = nsess + 1
            /\ delivered' = <<>>
            /\ starts_since_stop' = CountTo2(starts_since_stop)
            /\ audio_data' = <<Frame(nsess + 1, now + 1)>>
            /\ cbthreads' = cbthreads \cup
                   {CallbackThread("on_recording_start", nsess + 1)}
       ELSE /\ audio_data' = Append(audio_data, Frame(cur, now + 1))
            /\ UNCHANGED <<is_recording, nsess, cur, delivered,
                           starts_since_stop, cbthreads>>
    /\ UNCHANGED silence_start_time
    /\ UNCHANGED <<vadFixed, stream, openStreams, cpc, cret, ncalls,
                   cancelled, is_listening, cbpc>>

\* _audio_callback with a chunk whose RMS exceeds vad_threshold:
\* _handle_voice_detected, under self.lock
_handle_voice_detected ==
    /\ recorder = "AudioRecorder"
    /\ cbpc = "idle"
    /\ CallbackStream \in openStreams
    /\ nframes < MaxFrames
    /\ nframes' = nframes + 1
    /\ now < MaxTicks
    /\ now' = now + 1
    /\ IF ~is_recording
       THEN /\ nsess < MaxCalls
            /\ is_recording' = TRUE
            /\ nsess' = nsess + 1
            /\ cur' = nsess + 1
            /\ delivered' = <<>>
            /\ starts_since_stop' = CountTo2(starts_since_stop)
            /\ audio_data' = <<Frame(nsess + 1, now + 1)>>
            /\ cbthreads' = cbthreads \cup
                   {CallbackThread("on_recording_start", nsess + 1)}
       ELSE /\ audio_data' = Append(audio_data, Frame(cur, now + 1))
            /\ UNCHANGED <<is_recording, nsess, cur, delivered,
                           starts_since_stop, cbthreads>>
    /\ silence_start_time' = NoTime
    /\ UNCHANGED <<vadFixed, stream, openStreams, cpc, cret, ncalls,
                   cancelled, is_listening, cbpc>>

\* _audio_callback with a chunk at or below vad_threshold:
\* _handle_silence_detected reads is_recording without the lock
_audio_callback_silence ==
    /\ recorder = "AudioRecorder"
    /\ cbpc = "idle"
    /\ CallbackStream \in openStreams
    /\ now < MaxTicks
    /\ now' = now + 1
    /\ cbpc' = IF is_recording THEN "silence_time" ELSE "idle"
    /\ UNCHANGED <<vadFrame, is_recording, stream, openStreams, cpc, cret,
                   ncalls, nsess, cur, history, is_listening, audio_data,
                   silence_start_time>>

\* seeded fault: the timeout test is >= instead of >
_handle_silence_detected_early ==
    /\ cbpc = "silence_time"
    /\ IF silence_start_time = NoTime
       THEN silence_start_time' = now /\ cbpc' = "idle"
       ELSE /\ cbpc' = IF now - silence_start_time >= SilenceTimeout
                       THEN "silence_stop" ELSE "idle"
            /\ UNCHANGED silence_start_time
    /\ UNCHANGED <<vadFrame, is_recording, stream, openStreams, cpc, cret,
                   ncalls, nsess, cur, history, is_listening, audio_data,
                   now>>

\* current_time = time.time(); if self.silence_start_time is None:
\* self.silence_start_time = current_time; elif current_time -
\* self.silence_start_time > self.silence_timeout:
\* self._stop_recording_internal()
_handle_silence_detected ==
    /\ cbpc = "silence_time"
    /\ IF silence_start_time = NoTime
       THEN silence_start_time' = now /\ cbpc' = "idle"
       ELSE /\ cbpc' = IF now - silence_start_time > SilenceTimeout
                       THEN "silence_stop" ELSE "idle"
            /\ UNCHANGED silence_start_time
    /\ UNCHANGED <<vadFrame, is_recording, stream, openStreams, cpc, cret,
                   ncalls, nsess, cur, history, is_listening, audio_data,
                   now>>

\* the silence timeout was exceeded: self._stop_recording_internal()
_handle_silence_timeout ==
    /\ cbpc = "silence_stop"
    /\ _stop_recording_internal
    /\ cbpc' = "idle"
    /\ UNCHANGED <<vadFixed, nframes, stream, openStreams, cpc, cret, ncalls,
                   nsess, cur, cancelled, is_listening, now>>

\* ---------------------------------------------------------------- cleanup

\* cleanup() is the last call made on a recorder: it ends with
\* self.pyaudio.terminate(); self.pyaudio = None
LastCall(c) ==
    /\ c \in callers
    /\ cpc[c] = "idle"
    /\ ncalls < MaxCalls
    /\ ncalls' = MaxCalls

\* what cleanup() leaves alone when it begins on a ManualAudioRecorder
cleanupFrame == <<recorder, callers, device_index, device_count, vadVars,
                  cbthreads, outside,
                  voice_is_recording, pipeline, read_fault, callback_errors, wk,
                  timedOut, after_stop, nsess, nframes>>

\* ManualAudioRecorder.cleanup, nothing being recorded
cleanup_idle(c) ==
    /\ recorder = "ManualAudioRecorder"
    /\ LastCall(c)
    /\ ~is_recording
    /\ cret' = [cret EXCEPT ![c] = Returned("cleanup", "None")]
    /\ UNCHANGED <<recorderVars, wpc, cpc, csid, cjoin, cur, cleanupFrame,
                   cleaned, history>>

\* ManualAudioRecorder.cleanup: if self.is_recording:
\* self.cancel_recording(), whose check passes
cleanup_cancels(c) ==
    /\ recorder = "ManualAudioRecorder"
    /\ LastCall(c)
    /\ is_recording
    /\ cleaned' = cleaned \cup {cur}
    /\ csid' = [csid EXCEPT ![c] = cur]
    /\ cret' = [cret EXCEPT ![c] = Returned("cancel_recording", "-")]
    /\ cpc' = [cpc EXCEPT ![c] = "cancel_signal"]
    /\ cancelled' = cancelled \cup {cur}
    /\ UNCHANGED <<recorderVars, wpc, cjoin, cur, cleanupFrame, delivered,
                   starts_since_stop>>

\* AudioRecorder.cleanup: self.stop_listening(), which returns at once
\* because the recorder is not listening
cleanup_not_listening(c) ==
    /\ recorder = "AudioRecorder"
    /\ LastCall(c)
    /\ ~is_listening
    /\ cleaned' = IF is_recording THEN cleaned \cup {cur} ELSE cleaned
    /\ cret' = [cret EXCEPT ![c] = Returned("cleanup", "None")]
    /\ UNCHANGED <<recorder, callers, device_index, device_count,
                   cbthreads, outside, voice_is_recording, pipeline, audio_buffer, recording_thread,
                   stop_recording_event, wpc, wk, csid, cjoin, timedOut,
                   after_stop, read_fault, callback_errors, nframes,
                   is_recording, stream, openStreams, cpc, nsess, cur,
                   history, vadVars>>

\* AudioRecorder.cleanup: self.stop_listening(), whose check passes;
\* if self.is_recording: (read without the lock)
cleanup_stops_listening(c) ==
    /\ recorder = "AudioRecorder"
    /\ LastCall(c)
    /\ is_listening
    /\ cleaned' = IF is_recording THEN cleaned \cup {cur} ELSE cleaned
    /\ cret' = [cret EXCEPT ![c] = Returned("stop_listening", "-")]
    /\ cpc' = [cpc EXCEPT ![c] =
                 IF is_recording THEN "listen_internal" ELSE "listen_close"]
    /\ UNCHANGED <<recorder, callers, device_index, device_count,
                   cbthreads, outside, voice_is_recording, pipeline, audio_buffer, recording_thread,
                   stop_recording_event, wpc, wk, csid, cjoin, timedOut,
                   after_stop, read_fault, callback_errors, nframes,
                   is_recording, stream, openStreams, nsess, cur, history,
                   vadVars>>

cleanup(c) ==
    \/ cleanup_idle(c)
    \/ cleanup_cancels(c)
    \/ cleanup_not_listening(c)
    \/ cleanup_stops_listening(c)

\* ------------------------------------------------------------------ Next

start_recording(c) ==
    \/ start_recording_rejected(c)
    \/ start_recording_accepted(c)
    \/ start_recording_clear(c)
    \/ start_recording_event(c)
    \/ start_recording_flag(c)
    \/ start_recording_thread(c)
    \/ start_recording_callback(c)

stop_recording(c) ==
    \/ stop_recording_rejected(c)
    \/ stop_recording_accepted(c)
    \/ stop_recording_signal(c)
    \/ stop_recording_flag(c)
    \/ stop_recording_join(c)
    \/ stop_recording_joined(c)
    \/ stop_recording_test(c)
    \/ stop_recording_concat(c)

cancel_recording(c) ==
    \/ cancel_recording_rejected(c)
    \/ cancel_recording_accepted(c)
    \/ cancel_recording_signal(c)
    \/ cancel_recording_flag(c)
    \/ cancel_recording_join(c)
    \/ cancel_recording_joined(c)
    \/ cancel_recording_clear(c)

_recording_worker(t) ==
    \/ worker_open(t)
    \/ worker_check(t)
    \/ worker_read(t)
    \/ worker_finally(t)

\* device errors
DeviceFault(t) ==
    \/ worker_open_fails(t)
    \/ worker_read_fails(t)
    \/ worker_finally_fails(t)

\* a join that returns after 2.0 seconds with the thread alive
JoinTimeout(c) ==
    \/ stop_recording_join_timeout(c)
    \/ cancel_recording_join_timeout(c)

start_listening(c) ==
    \/ start_listening_rejected(c)
    \/ start_listening_accepted(c)

stop_listening(c) ==
    \/ stop_listening_rejected(c)
    \/ stop_listening_accepted(c)
    \/ stop_listening_internal(c)
    \/ stop_listening_close(c)

_audio_callback ==
    \/ _handle_voice_detected
    \/ _audio_callback_silence
    \/ _handle_silence_detected
    \/ _handle_silence_timeout

\* device errors of the AudioRecorder
ListenFault(c) ==
    \/ start_listening_open_fails(c)
    \/ stop_listening_close_fails(c)

\* ManualAudioRecorder: calls and worker threads in any interleaving, every
\* join waiting until the thread has ended
NextManualJoined ==
    \/ \E c \in AllCallers : start_recording(c)
    \/ \E c \in AllCallers : stop_recording(c)
    \/ \E c \in AllCallers : cancel_recording(c)
    \/ \E t \in Threads : _recording_worker(t)

\* ... and joins may give up, or calls overlap, so that worker threads run
\* side by side
NextManual ==
    \/ NextManualJoined
    \/ \E c \in AllCallers : JoinTimeout(c)
    \/ \E t \in Threads : worker_read_closed(t)

\* AudioRecorder: calls and the stream thread in any interleaving
NextVad ==
    \/ \E c \in AllCallers : start_listening(c)
    \/ \E c \in AllCallers : stop_listening(c)
    \/ \E c \in AllCallers : force_stop_recording(c)
    \/ _audio_callback

\* the device works
Next == NextManual \/ NextVad

\* the device may fail
NextFaults ==
    \/ Next
    \/ \E t \in Threads : DeviceFault(t)
    \/ \E c \in AllCallers : ListenFault(c)

\* one controller thread: calls are made one after another
Spec == Init /\ [][Next]_vars
\* ... and no worker thread stays in a device call for 2.0 seconds
SpecJoined == Init /\ [][NextManualJoined \/ NextVad]_vars
SpecFaults == Init /\ [][NextFaults]_vars

\* every device read returns, however many frames were read before
NextLive ==
    \/ Next
    \/ \E t \in Threads : worker_read_unrecorded(t)

\* a worker thread that can take a step takes one
WorkerStep(t) ==
    \/ _recording_worker(t)
    \/ worker_read_closed(t)
    \/ worker_read_unrecorded(t)

\* ... and every worker thread is scheduled again and again, every device
\* call it makes returning
SpecLive ==
    Init /\ [][NextLive]_vars /\ \A t \in Threads : WF_vars(WorkerStep(t))

\* two controller threads on a ManualAudioRecorder: calls overlap
SpecConc == InitConc /\ [][NextManual]_vars

\* a callback handed to the ManualAudioRecorder raises (a callback of the
\* AudioRecorder runs on a thread of its own, where an exception or a hang
\* does not touch the recorder)
CallbackRaises(c) ==
    \/ start_recording_callback_raises(c)
    \/ stop_recording_callback_raises(c)

\* ... or never returns
CallbackHangs(c) ==
    \/ start_recording_callback_hangs(c)
    \/ stop_recording_callback_hangs(c)

NextCallbacks ==
    \/ Next
    \/ \E c \in AllCallers : CallbackRaises(c)

NextHangs ==
    \/ NextLive
    \/ \E c \in AllCallers : CallbackHangs(c)

\* the steps of a call that is in progress: the statements after the
\* is_recording check, the join returning or timing out among them
InCall(c) ==
    /\ cpc[c] # "idle"
    /\ \/ start_recording(c)
       \/ stop_recording(c)
       \/ cancel_recording(c)
       \/ JoinTimeout(c)
       \/ stop_listening(c)

\* a controller thread inside a call runs on, and a worker thread that is
\* not inside a device call is scheduled; a device call may never return
SpecStuck ==
    /\ Init
    /\ [][Next]_vars
    /\ \A c \in AllCallers : WF_vars(InCall(c))
    /\ \A t \in Threads : WF_vars(worker_check(t))

\* caller-supplied callbacks may raise
SpecCallbacks == Init /\ [][NextCallbacks]_vars

\* caller-supplied callbacks may never return, while every thread that can
\* take a step is scheduled and every device call returns
SpecHangs ==
    /\ Init
    /\ [][NextHangs]_vars
    /\ \A c \in AllCallers : WF_vars(InCall(c))
    /\ \A t \in Threads : WF_vars(WorkerStep(t))

\* construction of a recorder from any configuration on any platform
NextDevices == \E c \in AllCallers : _initialize_audio(c)
SpecDevices == InitDevices /\ [][NextDevices]_vars

\* ----------------------------------------------------------- VoiceRecorder

\* VoiceRecorder._start_recording (hotkey press) and the first Enter of
\* record_once: if self.is_recording: return; then
\* self.audio_recorder.start_recording()
_start_recording(c) ==
    /\ ~voice_is_recording
    /\ \/ start_recording_rejected(c)
       \/ start_recording_accepted(c)

\* VoiceRecorder._stop_recording (hotkey release): if not self.is_recording:
\* return; then self.audio_recorder.stop_recording()
_stop_recording(c) ==
    /\ voice_is_recording
    /\ \/ stop_recording_rejected(c)
       \/ stop_recording_accepted(c)

\* record_once after its start_recording() has returned True: the second
\* Enter, self.audio_recorder.stop_recording()
record_once_stop(c) ==
    /\ cret[c] = Returned("start_recording", "True")
    /\ \/ stop_recording_rejected(c)
       \/ stop_recording_accepted(c)

\* record_once, KeyboardInterrupt while it waits for either Enter:
\* self.audio_recorder.cancel_recording()
record_once_cancel(c) ==
    /\ ~voice_is_recording \/ cret[c] = Returned("start_recording", "True")
    /\ \/ cancel_recording_rejected(c)
       \/ cancel_recording_accepted(c)

\* the calls VoiceRecorder makes on its ManualAudioRecorder, and what they
\* set going
NextVoice ==
    \/ \E c \in AllCallers : _start_recording(c)
    \/ \E c \in AllCallers : _stop_recording(c)
    \/ \E c \in AllCallers : record_once_stop(c)
    \/ \E c \in AllCallers : record_once_cancel(c)
    \/ \E c \in AllCallers : InCall(c)
    \/ \E t \in Threads : _recording_worker(t)
    \/ \E t \in Threads : worker_read_closed(t)

InitVoice ==
    /\ recorder = "ManualAudioRecorder"
    /\ callers = {1}
    /\ InitRecorder
    /\ Constructed

\* a VoiceRecorder driven by hotkey presses and releases and by record_once
SpecVoice == InitVoice /\ [][NextVoice]_vars

\* a recorder that is used and, at some time, cleaned up
NextCleanup ==
    \/ Next
    \/ \E c \in AllCallers : cleanup(c)
SpecCleanup == Init /\ [][NextCleanup]_vars
\* ------------------------------------------------------ hotkey front-ends

MaxKeys == 4          \* key events the listener thread handles in a behaviour

\* keyboard.on_press_key, keyboard.on_release_key and one keyboard.add_hotkey
\* for the cancel combination, in the order start_listening registers them
HookOrder == <<"on_press_key", "on_release_key", "add_hotkey">>
AllHooks == {HookOrder[i] : i \in 1..Len(HookOrder)}

\* what no step of a hotkey front-end touches
recorderSide == <<recorder, callers, device_index, device_count,
                  voice_is_recording, pipeline, cleaned, recorderVars, workerVars,
                  cpc, csid, cjoin, cret, ncalls, nsess, cur, read_fault,
                  callback_errors, history, vadVars, cbthreads,
                  begun, loaderVars>>

\* the listener thread, which runs one handler at a time, takes the next
\* key event
KeyEvent(k) ==
    /\ hkpc = "idle"
    /\ Len(keys) < MaxKeys
    /\ keys' = Append(keys, k)
    /\ hkcall' = ncalls

\* seeded fault: the press handler without its is_recording check
_on_record_key_press_unguarded ==
    /\ front = "HotkeyHandler"
    /\ "on_press_key" \in hooks
    /\ KeyEvent("press")
    /\ hotkey_is_recording' = TRUE
    /\ invoked' = Append(invoked, "start")
    /\ hkpc' = "on_start_recording"
    /\ UNCHANGED <<front, hooks, is_active, hotkey_pressed, recorderSide>>

\* HotkeyHandler._on_record_key_press: if not self.is_recording:
\* self.is_recording = True; self.on_start_recording().  The call
\* on_start_recording makes on the recorder is the next step of the thread.
_on_record_key_press ==
    /\ front = "HotkeyHandler"
    /\ "on_press_key" \in hooks
    /\ KeyEvent("press")
    /\ IF ~hotkey_is_recording
       THEN /\ hotkey_is_recording' = TRUE
            /\ invoked' = Append(invoked, "start")
            /\ hkpc' = "on_start_recording"
       ELSE UNCHANGED <<hotkey_is_recording, invoked, hkpc>>
    /\ UNCHANGED <<front, hooks, is_active, hotkey_pressed, recorderSide>>

\* HotkeyHandler._on_record_key_release: if self.is_recording:
\* self.is_recording = False; self.on_stop_recording()
_on_record_key_release ==
    /\ front = "HotkeyHandler"
    /\ "on_release_key" \in hooks
    /\ KeyEvent("release")
    /\ IF hotkey_is_recording
       THEN /\ hotkey_is_recording' = FALSE
            /\ invoked' = Append(invoked, "stop")
            /\ hkpc' = "on_stop_recording"
       ELSE UNCHANGED <<hotkey_is_recording, invoked, hkpc>>
    /\ UNCHANGED <<front, hooks, is_active, hotkey_pressed, recorderSide>>

\* HotkeyHandler._on_cancel_key: if self.is_recording and
\* self.on_cancel_recording: self.on_cancel_recording()
_on_cancel_key ==
    /\ front = "HotkeyHandler"
    /\ "add_hotkey" \in hooks
    /\ KeyEvent("cancel")
    /\ hkpc' = IF hotkey_is_recording THEN "on_cancel_recording" ELSE hkpc
    /\ UNCHANGED <<front, hooks, is_active, hotkey_is_recording,
                   hotkey_pressed, invoked, recorderSide>>

\* WhisperDictate._start_recording: self.audio_recorder.start_recording()
WhisperDictate_start_recording(c) ==
    /\ hkpc = "on_start_recording"
    /\ ncalls = hkcall
    /\ \/ start_recording_rejected(c)
       \/ start_recording_accepted(c)

\* WhisperDictate._stop_recording: self.audio_recorder.stop_recording()
WhisperDictate_stop_recording(c) ==
    /\ hkpc = "on_stop_recording"
    /\ ncalls = hkcall
    /\ \/ stop_recording_rejected(c)
       \/ stop_recording_accepted(c)

\* seeded fault: the cancel combination stops the recording
_cancel_recording_stops(c) ==
    /\ hkpc = "on_cancel_recording"
    /\ ncalls = hkcall
    /\ \/ stop_recording_rejected(c)
       \/ stop_recording_accepted(c)

\* WhisperDictate._cancel_recording: self.audio_recorder.cancel_recording()
_cancel_recording(c) ==
    /\ hkpc = "on_cancel_recording"
    /\ ncalls = hkcall
    /\ \/ cancel_recording_rejected(c)
       \/ cancel_recording_accepted(c)

\* VoiceRecorder, on_press of the pynput listener: if key ==
\* self.target_key and not self.hotkey_pressed: self.hotkey_pressed = True;
\* self._start_recording()
on_press ==
    /\ front = "VoiceRecorder"
    /\ KeyEvent("press")
    /\ IF ~hotkey_pressed
       THEN /\ hotkey_pressed' = TRUE
            /\ invoked' = Append(invoked, "start")
            /\ hkpc' = "_start_recording"
       ELSE UNCHANGED <<hotkey_pressed, invoked, hkpc>>
    /\ UNCHANGED <<front, hooks, is_active, hotkey_is_recording,
                   recorderSide>>

\* ... on_release: if key == self.target_key and self.hotkey_pressed:
\* self.hotkey_pressed = False; self._stop_recording()
on_release ==
    /\ front = "VoiceRecorder"
    /\ KeyEvent("release")
    /\ IF hotkey_pressed
       THEN /\ hotkey_pressed' = FALSE
            /\ invoked' = Append(invoked, "stop")
            /\ hkpc' = "_stop_recording"
       ELSE UNCHANGED <<hotkey_pressed, invoked, hkpc>>
    /\ UNCHANGED <<front, hooks, is_active, hotkey_is_recording,
                   recorderSide>>

\* the call of VoiceRecorder._start_recording or _stop_recording on the
\* recorder
VoiceRecorder_call(c) ==
    /\ ncalls = hkcall
    /\ \/ hkpc = "_start_recording" /\ _start_recording(c)
       \/ hkpc = "_stop_recording" /\ _stop_recording(c)

\* VoiceRecorder._start_recording: if self.is_recording: return, and
\* _stop_recording: if not self.is_recording: return
VoiceRecorder_returns_early ==
    /\ \/ hkpc = "_start_recording" /\ voice_is_recording
       \/ hkpc = "_stop_recording" /\ ~voice_is_recording
    /\ ncalls = hkcall
    /\ hkpc' = "idle"
    /\ UNCHANGED <<front, hooks, is_active, hotkey_is_recording,
                   hotkey_pressed, hkcall, keys, invoked, recorderSide>>

\* the call a handler made on the recorder has returned, and the handler
\* returns
handler_returns ==
    /\ hkpc # "idle"
    /\ ncalls > hkcall
    /\ \A c \in callers : cpc[c] = "idle"
    /\ hkpc' = "idle"
    /\ UNCHANGED <<front, hooks, is_active, hotkey_is_recording,
                   hotkey_pressed, hkcall, keys, invoked, recorderSide>>

\* HotkeyHandler.start_listening: the first n registrations succeed; with
\* n < 3 the next one raises, the except clause calls stop_listening(),
\* which returns at once because is_active is still False, and re-raises
HotkeyHandler_start_listening(n) ==
    /\ front = "HotkeyHandler"
    /\ hkpc = "idle"
    /\ ~is_active
    /\ Len(keys) < MaxKeys
    /\ keys' = Append(keys, IF n = Len(HookOrder) THEN "start_listening"
                            ELSE "start_listening raised")
    /\ hooks' = hooks \cup {HookOrder[i] : i \in 1..n}
    /\ is_active' = (n = Len(HookOrder))
    /\ UNCHANGED <<front, hotkey_is_recording, hotkey_pressed, hkpc, hkcall,
                   invoked, recorderSide>>

\* if self.is_active: return
HotkeyHandler_start_listening_active ==
    /\ front = "HotkeyHandler"
    /\ hkpc = "idle"
    /\ is_active
    /\ Len(keys) < MaxKeys
    /\ keys' = Append(keys, "start_listening")
    /\ UNCHANGED <<front, hooks, is_active, hotkey_is_recording,
                   hotkey_pressed, hkpc, hkcall, invoked, recorderSide>>

\* HotkeyHandler.stop_listening: if not self.is_active: return;
\* keyboard.unhook_all(); self.is_active = False; self.is_recording = False
HotkeyHandler_stop_listening ==
    /\ front = "HotkeyHandler"
    /\ hkpc = "idle"
    /\ Len(keys) < MaxKeys
    /\ keys' = Append(keys, "stop_listening")
    /\ IF is_active
       THEN hooks' = {} /\ is_active' = FALSE /\ hotkey_is_recording' = FALSE
       ELSE UNCHANGED <<hooks, is_active, hotkey_is_recording>>
    /\ UNCHANGED <<front, hotkey_pressed, hkpc, hkcall, invoked,
                   recorderSide>>

\* the daemon: the handlers of the HotkeyHandler on the keyboard listener
\* thread, and the ManualAudioRecorder they drive
NextDaemon ==
    \/ _on_record_key_press
    \/ _on_record_key_release
    \/ _on_cancel_key
    \/ \E c \in AllCallers : WhisperDictate_start_recording(c)
    \/ \E c \in AllCallers : WhisperDictate_stop_recording(c)
    \/ \E c \in AllCallers : _cancel_recording(c)
    \/ handler_returns
    \/ \E c \in AllCallers : InCall(c)
    \/ \E t \in Threads : _recording_worker(t)
    \/ \E t \in Threads : worker_read_closed(t)

\* ... or the handlers of a VoiceRecorder on its pynput listener thread
NextHotkey ==
    \/ NextDaemon
    \/ on_press
    \/ on_release
    \/ \E c \in AllCallers : VoiceRecorder_call(c)
    \/ VoiceRecorder_returns_early

\* the daemon (a HotkeyHandler that is listening, wired to a
\* ManualAudioRecorder by WhisperDictate) or a VoiceRecorder in hotkey mode
InitHotkey ==
    /\ recorder = "ManualAudioRecorder"
    /\ callers = {1}
    /\ InitRecorder
    /\ Configured
    /\ front \in {"HotkeyHandler", "VoiceRecorder"}
    /\ hooks = IF front = "HotkeyHandler" THEN AllHooks ELSE {}
    /\ is_active = (front = "HotkeyHandler")

SpecHotkey == InitHotkey /\ [][NextHotkey]_vars

\* a HotkeyHandler from its construction on: start_listening may fail, and
\* listening may be stopped and started again
NextHooks ==
    \/ NextDaemon
    \/ \E n \in 0..Len(HookOrder) : HotkeyHandler_start_listening(n)
    \/ HotkeyHandler_start_listening_active
    \/ HotkeyHandler_stop_listening

InitHooks ==
    /\ recorder = "ManualAudioRecorder"
    /\ callers = {1}
    /\ InitRecorder
    /\ Configured
    /\ front = "HotkeyHandler"
    /\ hooks = {}
    /\ is_active = FALSE

SpecHooks == InitHooks /\ [][NextHooks]_vars

\* ------------------------------------------- callbacks of the AudioRecorder

\* a callback thread the AudioRecorder started is scheduled: its target
\* begins to run
callback_begins(th) ==
    /\ th \in cbthreads
    /\ cbthreads' = cbthreads \ {th}
    /\ begun' = Append(begun, th)
    /\ UNCHANGED <<recorder, callers, device_index, device_count,
                   voice_is_recording, pipeline, cleaned, recorderVars, workerVars,
                   cpc, csid, cjoin, cret, ncalls, nsess, cur, read_fault,
                   callback_errors, history, vadVars, hotkeyVars,
                   loaderVars>>

\* the threads an AudioRecorder can start
CallbackThreads ==
    {CallbackThread(cb, s) :
        cb \in {"on_recording_start", "on_recording_stop"}, s \in Threads}

\* the AudioRecorder, its stream thread and its callback threads, in any
\* interleaving
NextThreads ==
    \/ NextVad
    \/ \E th \in CallbackThreads : callback_begins(th)

InitThreads ==
    /\ recorder = "AudioRecorder"
    /\ callers = {1}
    /\ InitRecorder
    /\ Constructed

SpecThreads == InitThreads /\ [][NextThreads]_vars

\* ---------------------------------------- _process_audio of the VoiceRecorder

\* what no step of a _process_audio thread touches
pipelineFrame == <<recorder, callers, device_index, device_count,
                   voice_is_recording, cleaned, recorderVars, workerVars,
                   cpc, csid, cjoin, cret, ncalls, nsess, cur, read_fault,
                   callback_errors, history, vadVars, cbthreads, outside>>

\* text = self.transcriber.transcribe(audio_data, ...) returns in the
\* thread of session s: a text, or None or blank text
_process_audio_transcribe(s, text) ==
    /\ ppc[s] = "transcribe"
    /\ ppc' = [ppc EXCEPT ![s] = IF text THEN "copy" ELSE "no text"]
    /\ UNCHANGED <<clipboard, pipelineFrame>>

\* if text and text.strip():
\* self.clipboard_manager.copy_to_clipboard(text), whose pyperclip.copy
\* puts the text on the clipboard or (ok false) raises
_process_audio_copy(s, ok) ==
    /\ ppc[s] = "copy"
    /\ ppc' = [ppc EXCEPT ![s] = IF ok THEN "copied" ELSE "failed"]
    /\ clipboard' = IF ok THEN s ELSE clipboard
    /\ UNCHANGED pipelineFrame

_process_audio(s) ==
    \/ \E text \in BOOLEAN : _process_audio_transcribe(s, text)
    \/ \E ok \in BOOLEAN : _process_audio_copy(s, ok)

\* a VoiceRecorder, its recorder and the threads that process what was
\* recorded
NextPipeline ==
    \/ NextVoice
    \/ \E s \in Threads : _process_audio(s)

SpecPipeline == InitVoice /\ [][NextPipeline]_vars

\* ------------------------------------------ WhisperTranscriber._load_model

\* what no step of _load_model touches
loaderFrame == <<recorder, callers, device_index, device_count,
                 voice_is_recording, pipeline, cleaned, recorderVars,
                 workerVars, cpc, csid, cjoin, cret, ncalls, nsess, cur,
                 read_fault, callback_errors, history, vadVars, cbthreads,
                 hotkeyVars, begun>>

\* a thread calls _load_model and reaches "with self.model_load_lock:"
_load_model_called(t) ==
    /\ lpc[t] = "idle"
    /\ lpc' = [lpc EXCEPT ![t] = "acquire"]
    /\ UNCHANGED <<model, model_load_lock, is_loading, whisper_device, lret,
                   nloads, loaderFrame>>

\* with self.model_load_lock: the lock is free and the thread takes it
_load_model_acquire(t) ==
    /\ lpc[t] = "acquire"
    /\ model_load_lock = NoLoader
    /\ model_load_lock' = t
    /\ lpc' = [lpc EXCEPT ![t] = "check"]
    /\ UNCHANGED <<model, is_loading, whisper_device, lret, nloads,
                   loaderFrame>>

\* if self.model is not None: return True; if self.is_loading: (wait);
\* try: self.is_loading = True
_load_model_check(t) ==
    /\ lpc[t] = "check"
    /\ IF model # "None"
       THEN /\ lret' = [lret EXCEPT ![t] = "True"]
            /\ lpc' = [lpc EXCEPT ![t] = "release"]
            /\ UNCHANGED is_loading
       ELSE IF is_loading
       THEN /\ lpc' = [lpc EXCEPT ![t] = "wait"]
            /\ UNCHANGED <<lret, is_loading>>
       ELSE /\ is_loading' = TRUE
            /\ lpc' = [lpc EXCEPT ![t] = "load"]
            /\ UNCHANGED lret
    /\ UNCHANGED <<model, model_load_lock, whisper_device, nloads,
                   loaderFrame>>

\* while self.is_loading: time.sleep(0.1), with the lock held;
\* return self.model is not None
_load_model_wait(t) ==
    /\ lpc[t] = "wait"
    /\ ~is_loading
    /\ lret' = [lret EXCEPT ![t] = IF model # "None" THEN "True"
                                   ELSE "False"]
    /\ lpc' = [lpc EXCEPT ![t] = "release"]
    /\ UNCHANGED <<model, model_load_lock, is_loading, whisper_device,
                   nloads, loaderFrame>>

\* self.model = whisper.load_model(self.model_size, device=self.device);
\* return True; or the call raises (ok false): except Exception
_load_model_load(t, ok) ==
    /\ lpc[t] = "load"
    /\ IF ok
       THEN /\ model' = "loaded"
            /\ nloads' = nloads + 1
            /\ lret' = [lret EXCEPT ![t] = "True"]
            /\ lpc' = [lpc EXCEPT ![t] = "finally"]
       ELSE /\ lpc' = [lpc EXCEPT ![t] =
                         IF whisper_device # "cpu" THEN "fallback"
                         ELSE "finally"]
            /\ lret' = [lret EXCEPT ![t] =
                          IF whisper_device # "cpu" THEN @ ELSE "False"]
            /\ UNCHANGED <<model, nloads>>
    /\ UNCHANGED <<model_load_lock, is_loading, whisper_device, loaderFrame>>

\* if self.device != "cpu": self.device = "cpu"; self.model =
\* whisper.load_model(self.model_size, device="cpu"); return True; or that
\* call raises too: return False
_load_model_fallback(t, ok) ==
    /\ lpc[t] = "fallback"
    /\ whisper_device' = "cpu"
    /\ IF ok
       THEN /\ model' = "loaded"
            /\ nloads' = nloads + 1
            /\ lret' = [lret EXCEPT ![t] = "True"]
       ELSE /\ lret' = [lret EXCEPT ![t] = "False"]
            /\ UNCHANGED <<model, nloads>>
    /\ lpc' = [lpc EXCEPT ![t] = "finally"]
    /\ UNCHANGED <<model_load_lock, is_loading, loaderFrame>>

\* seeded fault: _load_model without its finally clause
_load_model_no_finally(t) ==
    /\ lpc[t] = "finally"
    /\ lpc' = [lpc EXCEPT ![t] = "release"]
    /\ UNCHANGED <<model, model_load_lock, is_loading, whisper_device, lret,
                   nloads, loaderFrame>>

\* finally: self.is_loading = False
_load_model_finally(t) ==
    /\ lpc[t] = "finally"
    /\ is_loading' = FALSE
    /\ lpc' = [lpc EXCEPT ![t] = "release"]
    /\ UNCHANGED <<model, model_load_lock, whisper_device, lret, nloads,
                   loaderFrame>>

\* the with block is left: the lock is released and _load_model returns
_load_model_release(t) ==
    /\ lpc[t] = "release"
    /\ model_load_lock' = NoLoader
    /\ lpc' = [lpc EXCEPT ![t] = "returned"]
    /\ UNCHANGED <<model, is_loading, whisper_device, lret, nloads,
                   loaderFrame>>

\* the thread leaves _load_model with its result: out of the wait loop once
\* is_loading is false, and out of the with block
_load_model_leave(t) ==
    /\ lpc[t] \in {"wait", "release"}
    /\ \/ _load_model_wait(t)
       \/ _load_model_release(t)

_load_model(t) ==
    \/ _load_model_called(t)
    \/ _load_model_acquire(t)
    \/ _load_model_check(t)
    \/ \E ok \in BOOLEAN : _load_model_load(t, ok)
    \/ \E ok \in BOOLEAN : _load_model_fallback(t, ok)
    \/ _load_model_finally(t)
    \/ _load_model_leave(t)

NextLoad == \E t \in Loaders : _load_model(t)

\* a WhisperTranscriber constructed with load_model=False for any device
InitLoad ==
    /\ recorder = "ManualAudioRecorder"
    /\ callers = {1}
    /\ InitRecorder
    /\ cpc = [c \in AllCallers |-> "idle"]
    /\ device_index = NoDevice
    /\ device_count = 1
    /\ whisper_device \in {"cuda", "cpu"}
    /\ NoFrontEnd

\* threads call _load_model at any time; a thread that can take a step
\* takes one, and every call of whisper.load_model returns or raises
SpecLoad ==
    /\ InitLoad
    /\ [][NextLoad]_vars
    /\ \A t \in Loaders : WF_vars(_load_model(t))

\* ----------------------------------------------------------------- claims

\* C1: at most one _recording_worker thread is alive in every reachable
\* state of the ManualAudioRecorder, a join that timed out included.
C1_OneCaptureThread == Cardinality({t \in Threads : Alive(t)}) <= 1

\* C2: whenever a controller is about to clear, test or concatenate
\* audio_buffer, no worker thread that can still append to it is alive: none
\* is inside the device read, and none is on its way to a read with the stop
\* flag clear.
C2_BufferAccessAfterJoin ==
    \A c \in callers :
        cpc[c] \in {"start_clear", "stop_test", "stop_concat", "cancel_clear"}
        => \A t \in Threads :
               /\ wpc[t] # "read"
               /\ wpc[t] \in {"open", "check"} => stop_recording_event

\* C3: while one controller thread is inside the join of stop_recording or
\* cancel_recording, no call of another controller thread is accepted: the
\* other thread stays outside the recorder's methods.
C3_CallsRejectedWhileJoining ==
    [][\A c, d \in callers :
         (c # d /\ cpc[c] \in {"stop_wait", "cancel_wait"} /\ cpc[d] = "idle")
         => cpc'[d] = "idle"]_vars

\* C4: with calls made one after another, on_recording_stop is invoked at
\* most once after each accepted start (delivered is emptied by every
\* accepted start).
C4_OneUtterancePerStart == Len(delivered) <= 1

\* C4 witness: an utterance was delivered and the stop_recording call made
\* after it was rejected.
C4_Witness ==
    /\ recorder = "ManualAudioRecorder"
    /\ Len(delivered) = 1
    /\ ~is_recording
    /\ cpc[1] = "idle"
    /\ cret[1] = Returned("stop_recording", "False")

\* C5: on_recording_start is never invoked twice without an
\* on_recording_stop invocation or a cancel in between.
C5_StartsPaired == starts_since_stop <= 1

\* C6: no on_recording_stop invocation carries a session for which a cancel
\* (cancel_recording, force_stop_recording) was accepted, and from the
\* cancel until the next session begins nothing at all is delivered.
C6_NoUtteranceForCancelled ==
    /\ \A i \in 1..Len(delivered) : delivered[i].sid \notin cancelled
    /\ cur \in cancelled => delivered = <<>>

\* C6 witness: session 1 was ended by cancel_recording and the session
\* started after it has delivered an utterance.
C6_Witness ==
    /\ recorder = "ManualAudioRecorder"
    /\ 1 \in cancelled
    /\ Len(delivered) = 1
    /\ delivered[1].sid = 2

\* C7: a start_recording call made while is_recording is true returns False
\* and changes neither the recorder's fields, nor the worker threads, nor
\* the callbacks invoked.
C7_StartWhileRecordingRejected ==
    [][\A c \in callers :
         (/\ recorder = "ManualAudioRecorder"
          /\ cpc[c] = "idle"
          /\ is_recording
          /\ ncalls' = ncalls + 1
          /\ cret'[c].op = "start_recording")
         => /\ cret'[c].val = "False"
            /\ cpc'[c] = "idle"
            /\ UNCHANGED <<recorderVars, workerVars, nsess, cur, history>>]_vars

\* C7 witness: a start_recording call has returned False while the session
\* it found is still recording, frames in its buffer.
C7_Witness ==
    /\ cret[1] = Returned("start_recording", "False")
    /\ is_recording
    /\ audio_buffer # <<>>
    /\ Alive(recording_thread)

C9_ExactConcatenation ==
    \A i \in 1..Len(delivered) :
        LET u == delivered[i] IN
        /\ Len(u.audio) = Len(u.frames) * FrameSize
        /\ \A k \in 1..Len(u.frames) : \A j \in 1..FrameSize :
               u.audio[(k - 1) * FrameSize + j] = Samples(u.frames[k])[j]
        /\ \A k1, k2 \in 1..Len(u.frames) :
               (k1 < k2 /\ u.frames[k1].tid = u.frames[k2].tid)
               => u.frames[k1].k < u.frames[k2].k

\* C9 witness: stop_recording has delivered an utterance of two or more
\* frames.
C9_Witness ==
    /\ recorder = "ManualAudioRecorder"
    /\ \E i \in 1..Len(delivered) : Len(delivered[i].frames) >= 2

\* C10: every frame of a delivered utterance was read by the capture loop of
\* the session the utterance belongs to.
C10_OwnFramesOnly ==
    \A i \in 1..Len(delivered) :
        \A k \in 1..Len(delivered[i].frames) :
            delivered[i].frames[k].tid = delivered[i].sid

\* the frames of a buffer that the capture loop of session s appended
OwnFrames(s, buf) == SelectSeq(buf, LAMBDA f : f.tid = s)

\* the step with which a stop_recording call of controller c returns
StopReturns(c) ==
    /\ recorder = "ManualAudioRecorder"
    /\ cpc[c] \in {"stop_test", "stop_concat"}
    /\ cpc'[c] = "idle"

\* the step with which a cancel_recording call of controller c returns
CancelReturns(c) ==
    /\ recorder = "ManualAudioRecorder"
    /\ cpc[c] = "cancel_clear"
    /\ cpc'[c] = "idle"

\* C11: when a stop_recording call returns for a session whose capture loop
\* has appended no frame, on_recording_stop has not been invoked by the call
\* and is_recording is false.
C11_ZeroFramesNoUtterance ==
    [][\A c \in callers :
         (StopReturns(c) /\ OwnFrames(csid[c], audio_buffer) = <<>>)
         => /\ delivered' = delivered
            /\ ~is_recording']_vars

\* C12: when a stop_recording call returns for a session whose capture loop
\* was ended by a failed read, it has delivered exactly the frames that loop
\* had appended, in order, and returned True; if the loop had appended none,
\* nothing is delivered.  No call returns by raising.
C12_PartialUtteranceAfterReadFault ==
    [][\A c \in callers :
         (StopReturns(c) /\ csid[c] \in read_fault)
         => LET own == OwnFrames(csid[c], audio_buffer) IN
            /\ cret'[c].val # "raise"
            /\ IF own = <<>>
               THEN delivered' = delivered
               ELSE /\ cret'[c].val = "True"
                    /\ delivered' =
                         Append(delivered,
                                Utterance(csid[c], own, Concatenate(own)))]_vars

\* C13: a read that raises on an open stream does not end the capture loop:
\* the worker thread goes back to its loop test and can read again.
C13_LoopContinuesAfterReadError ==
    [][\A t \in Threads :
         (wpc[t] = "read" /\ stream \in openStreams /\ t \in read_fault')
         => wpc'[t] \in {"check", "read"}]_vars

\* C14: when the device cannot be opened for a session started on an idle
\* recorder, is_recording and is_listening are false and the start call does
\* not report success: no start_recording call for the session is about to
\* invoke on_recording_start and return True or has done so, and
\* start_listening raises.
C14_OpenFailureSurfaced ==
    [][/\ \A t \in Threads :
            (wpc[t] = "open" /\ wpc'[t] = "finally")
            => /\ ~is_recording'
               /\ starts_since_stop' = 0
               /\ \A c \in callers :
                      /\ ~(cpc'[c] = "start_callback" /\ csid'[c] = t)
                      /\ ~(cur' = t /\ cret'[c] =
                                        Returned("start_recording", "True"))
       /\ \A c \in callers :
            (/\ recorder = "AudioRecorder"
             /\ cpc[c] = "idle"
             /\ ~is_listening
             /\ ~is_recording
             /\ ncalls' = ncalls + 1
             /\ cret'[c].op = "start_listening"
             /\ stream' = stream)
            => /\ cret'[c].val = "raise"
               /\ ~is_listening'
               /\ ~is_recording']_vars

\* C15: when a stop_recording or cancel_recording call returns although the
\* thread it joined is still alive (the join timed out), the device stream
\* of that thread has been released and is_recording is false.
C15_StreamReleasedOnJoinTimeout ==
    [][\A c \in callers :
         ((StopReturns(c) \/ CancelReturns(c)) /\ csid[c] \in timedOut)
         => /\ csid[c] \notin openStreams'
            /\ ~is_recording']_vars

\* C16: from the moment stop_recording_event is set for its session, a
\* worker thread reads, and appends, at most one more frame.
C16_OneReadAfterStop == \A t \in Threads : after_stop[t] <= 1

\* C18: a worker thread that has terminated has closed the stream it opened
\* and has not left it in self.stream.
C18_StreamClosedOnExit ==
    recorder = "ManualAudioRecorder"
    => \A t \in Threads :
           wpc[t] = "done" => (t \notin openStreams /\ stream # t)

\* the step with which a stop_listening call of controller c returns after
\* stop_stream() or close() raised: the device stream is still open
CloseRaised(c) ==
    /\ cpc[c] = "listen_close"
    /\ cpc'[c] = "idle"
    /\ stream \in openStreams
    /\ openStreams' = openStreams

\* C19: a stop_listening call whose stop_stream() or close() raised returns
\* normally with is_listening and is_recording false and self.stream None;
\* a stop_recording or cancel_recording call returns normally with
\* is_recording false whatever the teardown in the worker thread did.
C19_TeardownErrorsSwallowed ==
    [][\A c \in callers :
         /\ CloseRaised(c)
            => /\ cret'[c] = Returned("stop_listening", "None")
               /\ stream' = NoStream
               /\ ~is_listening'
               /\ ~is_recording'
         /\ (StopReturns(c) \/ CancelReturns(c))
            => /\ cret'[c].val \in {"True", "False", "None"}
               /\ ~is_recording']_vars

\* C20: every stop_recording and cancel_recording call returns with
\* is_recording false, whatever happened to the session (read fault, failed
\* open, no frames, cancel, join timeout); a start_recording call made after
\* such a call is accepted as a new session, and an accepted call starts a
\* worker thread and returns True.
C20_NextStartAccepted ==
    [][\A c \in callers :
         /\ (StopReturns(c) \/ CancelReturns(c)) => ~is_recording'
         /\ (/\ recorder = "ManualAudioRecorder"
             /\ cpc[c] = "idle"
             /\ cret[c].op \in {"stop_recording", "cancel_recording"}
             /\ ncalls' = ncalls + 1
             /\ cret'[c].op = "start_recording")
            => /\ cpc'[c] = "start_clear"
               /\ nsess' = nsess + 1
         /\ (cpc[c] = "start_callback" /\ cpc'[c] = "idle")
            => /\ cret'[c] = Returned("start_recording", "True")
               /\ recording_thread = csid[c]
               /\ wpc[csid[c]] # "unborn"]_vars

\* C20 witness: the first session ended with a join timeout, its thread is
\* still alive, and the start_recording call made after it has returned
\* True with the thread of the second session running.
C20_Witness ==
    /\ recorder = "ManualAudioRecorder"
    /\ nsess = 2
    /\ cpc[1] = "idle"
    /\ cret[1] = Returned("start_recording", "True")
    /\ 1 \in timedOut
    /\ Alive(2)

\* C17: a worker thread for whose session stop_recording_event has been set
\* eventually terminates, whatever calls follow, when the thread keeps being
\* scheduled and every device call returns.
C17_SignalledThreadTerminates ==
    \A t \in Threads : (after_stop[t] # NotSignalled) ~> ~Alive(t)

\* positions of a controller thread inside stop_recording / cancel_recording
InStop == {"stop_signal", "stop_flag", "stop_join", "stop_wait", "stop_test",
           "stop_concat"}
InCancel == {"cancel_signal", "cancel_flag", "cancel_join", "cancel_wait",
             "cancel_clear"}

\* C21: stop_recording() and cancel_recording() always return to their
\* caller, the join giving up after its timeout, even when the worker
\* thread stays inside a device read for ever.
C21_StopAndCancelReturn ==
    \A c \in AllCallers :
        (recorder = "ManualAudioRecorder" /\ cpc[c] \in InStop \cup InCancel)
            ~> (cpc[c] = "idle")

\* a stop has returned after its join timed out on a thread that is still
\* inside its device read
C21_Witness ==
    /\ recorder = "ManualAudioRecorder"
    /\ cpc[1] = "idle"
    /\ cret[1].op \in {"stop_recording", "cancel_recording"}
    /\ recording_thread \in timedOut
    /\ wpc[recording_thread] = "read"
    /\ ~is_recording

\* positions of a controller thread inside start_recording
InStart == {"start_clear", "start_event", "start_flag", "start_thread",
            "start_callback", "start_callback_hung"}

\* C22: a callback that never returns does not block the controller:
\* start_recording() and stop_recording() still return.
C22_CallbackNeverBlocks ==
    \A c \in AllCallers :
        (recorder = "ManualAudioRecorder"
            /\ cpc[c] \in InStart \cup InStop \cup {"stop_callback_hung"})
            ~> (cpc[c] = "idle")

\* the step on which a callback raised and the recorder logged it
CallbackRaised(c, pos) ==
    /\ recorder = "ManualAudioRecorder"
    /\ cpc[c] = pos
    /\ callback_errors' # callback_errors

\* C23: an exception raised by on_recording_start or on_recording_stop does
\* not reach the caller: the call returns True as it does when the callback
\* returns, and leaves is_recording, the buffer, the stop flag, the thread
\* and the stream as they are.
C23_CallbackErrorContained ==
    [][\A c \in AllCallers :
        /\ CallbackRaised(c, "start_callback") =>
              /\ cret'[c] = Returned("start_recording", "True")
              /\ cpc'[c] = "idle"
              /\ UNCHANGED <<recorderVars, wpc>>
        /\ CallbackRaised(c, "stop_concat") =>
              /\ cret'[c] = Returned("stop_recording", "True")
              /\ cpc'[c] = "idle"
              /\ UNCHANGED <<recorderVars, wpc>>]_vars

\* both callbacks of a session have raised, and stop_recording has returned
C23_Witness ==
    /\ callback_errors = {"on_recording_start", "on_recording_stop"}
    /\ cpc[1] = "idle"
    /\ cret[1] = Returned("stop_recording", "True")
    /\ Len(delivered) = 1

\* the step of the stream thread on which a silence chunk makes
\* _stop_recording_internal hand an utterance to on_recording_stop
SilenceStops ==
    /\ recorder = "AudioRecorder"
    /\ cbpc = "silence_stop"
    /\ delivered' # delivered

\* C24: after voice, uninterrupted silence ends the session once: at the
\* first silence chunk for which the time since the first silence chunk of
\* the run exceeds silence_timeout, not before it, and not again on the
\* silence chunks that follow; a session is never left running past that
\* chunk.
C24_StopAtFirstChunkPastTimeout ==
    /\ [][SilenceStops =>
            /\ now - silence_start_time = SilenceTimeout + 1
            /\ Len(delivered') = 1
            /\ ~is_recording']_vars
    /\ [](recorder = "AudioRecorder" /\ is_recording /\ cbpc = "idle"
            /\ silence_start_time # NoTime
            => now - silence_start_time <= SilenceTimeout)

\* start_listening alone was called: voice, then silence past the timeout
\* and one chunk more, and one utterance
C24_Witness ==
    /\ recorder = "AudioRecorder"
    /\ cret[1] = Returned("start_listening", "None")
    /\ ncalls = 1
    /\ cbpc = "idle"
    /\ ~is_recording
    /\ Len(delivered) = 1
    /\ now > delivered[1].frames[Len(delivered[1].frames)].k
                + SilenceTimeout + 2

\* the step on which the stream thread takes a voice chunk
VoiceChunk ==
    /\ recorder = "AudioRecorder"
    /\ cbpc = "idle"
    /\ nframes' = nframes + 1

\* the step on which the stream thread takes a silence chunk
SilenceChunk ==
    /\ recorder = "AudioRecorder"
    /\ cbpc = "idle"
    /\ now' = now + 1
    /\ nframes' = nframes

\* C25: a voice chunk starts a session exactly when the recorder is idle,
\* and always resets the silence timer; a silence chunk that finds the
\* recorder idle starts neither a session nor the timer; and the automatic
\* stop comes only when more than silence_timeout has passed since a
\* silence chunk that no voice chunk followed.
C25_VoiceStartsAndResetsTimer ==
    [][/\ VoiceChunk =>
            /\ (nsess' = nsess + 1) <=> ~is_recording
            /\ is_recording'
            /\ silence_start_time' = NoTime
       /\ (SilenceChunk /\ ~is_recording) =>
            /\ cbpc' = "idle"
            /\ UNCHANGED <<is_recording, nsess, silence_start_time,
                           audio_data, delivered>>
       /\ SilenceStops =>
            /\ now - silence_start_time > SilenceTimeout
            /\ \A i \in 1..Len(audio_data) :
                   audio_data[i].k < silence_start_time]_vars

\* start_listening alone was called: voice, silence, voice again, and then
\* silence past the timeout has ended the session
C25_Witness ==
    /\ recorder = "AudioRecorder"
    /\ ncalls = 1
    /\ cbpc = "idle"
    /\ ~is_recording
    /\ Len(delivered) = 1
    /\ Len(delivered[1].frames) = 2
    /\ delivered[1].frames[2].k > delivered[1].frames[1].k + 1

\* C26: the utterance of a session is one continuous span of captured
\* audio: of the frames the device delivered to the session, from the first
\* in the utterance to the last, none is missing.
C26_UtteranceIsContinuousSpan ==
    \A i \in 1..Len(delivered) :
        LET own == OwnFrames(delivered[i].sid, delivered[i].frames)
        IN  \A j \in 1..(Len(own) - 1) : own[j + 1].k = own[j].k + 1

\* C27: a session started under start_listening(max_duration=D) is ended by
\* an automatic stop no later than D after it began, even if voice chunks
\* keep arriving: between two chunks, no session is older than D.
C27_SessionEndsWithinMaxDuration ==
    (recorder = "AudioRecorder" /\ is_recording /\ cbpc = "idle"
        /\ audio_data # <<>>)
        => now - audio_data[1].k <= MaxDuration

\* C28: a configured device index that is no valid index of the platform,
\* too large or negative, is replaced by None: after _initialize_audio,
\* device_index is None or the index of a device.
C28_InvalidIndexFallsBack ==
    (cpc[1] = "idle" /\ device_index # NoDevice)
        => device_index \subseteq 0..(device_count - 1)

\* C29: when stop_recording() runs on two threads at once for one session,
\* or beside cancel_recording(), on_recording_stop is called at most once
\* for the session, and not at all for a session whose cancel was accepted.
C29_ConcurrentStopsDeliverOnce ==
    /\ \A i, j \in 1..Len(delivered) :
           i # j => delivered[i].sid # delivered[j].sid
    /\ \A i \in 1..Len(delivered) : delivered[i].sid \notin cancelled

\* C30: whenever no call is in progress, VoiceRecorder.is_recording equals
\* the is_recording of its ManualAudioRecorder, so that a hotkey press while
\* nothing is being recorded passes the check of _start_recording.
C30_VoiceRecorderFlagInSync ==
    (\A c \in callers : cpc[c] = "idle")
        => voice_is_recording = is_recording

\* C31: in the AudioRecorder, whenever the lock is free, is_recording holds
\* exactly when audio_data is non-empty; so a stop of a running session
\* always finds audio to hand over, never the "No audio data captured"
\* branch.
C31_RecordingIffBufferNonEmpty ==
    recorder = "AudioRecorder" => (is_recording <=> audio_data # <<>>)

\* session 1 was force-stopped, session 2 was ended by a stop that handed
\* its audio over
C31_Witness ==
    /\ recorder = "AudioRecorder"
    /\ cancelled = {1}
    /\ ~is_recording
    /\ audio_data = <<>>
    /\ Len(delivered) = 1
    /\ delivered[1].sid = 2

\* C32: once stop_listening() has returned, is_recording is false and
\* audio_data is empty (so no callback is dispatched after it), however the
\* call and the stream thread interleave.
C32_IdleAfterStopListening ==
    \A c \in callers :
        (recorder = "AudioRecorder" /\ cpc[c] = "idle"
            /\ cret[c] = Returned("stop_listening", "None"))
            => (~is_recording /\ audio_data = <<>>)

\* C33: cleanup() called while a session is running discards the session:
\* on_recording_stop is never called for it, in either recorder.
C33_CleanupDiscardsRecording ==
    \A i \in 1..Len(delivered) : delivered[i].sid \notin cleaned

\* C34: whatever record-key presses and releases arrive (presses repeated
\* while the key is held, a release with no press before it), the starts
\* and stops a hotkey front-end invokes alternate, the first being a start.
C34_StartStopAlternate ==
    \A i \in 1..Len(invoked) :
        invoked[i] = IF i % 2 = 1 THEN "start" ELSE "stop"

\* the HotkeyHandler has handled a press, a repeated press, a release and a
\* second release, and invoked one start and one stop
C34_Witness ==
    /\ front = "HotkeyHandler"
    /\ keys = <<"press", "press", "release", "release">>
    /\ invoked = <<"start", "stop">>
    /\ hkpc = "idle"

\* C35: in the daemon, when the record key is pressed, the cancel
\* combination is pressed and the record key is released, on_recording_stop
\* is not called for the cancelled session; the release still calls
\* stop_recording, which returns False because nothing is being recorded,
\* and the handler is left with is_recording false.
C35_CancelThenRelease ==
    (/\ front = "HotkeyHandler"
     /\ Len(keys) \in {2, 3}
     /\ keys[1] = "press"
     /\ keys[2] = "cancel"
     /\ Len(keys) = 3 => keys[3] = "release")
        => /\ delivered = <<>>
           /\ (Len(keys) = 3 /\ hkpc = "idle")
                => /\ cret[1] = Returned("stop_recording", "False")
                   /\ ~hotkey_is_recording
                   /\ ~is_recording

\* press, cancel and release have been handled: session 1 was cancelled and
\* the stop_recording of the release has returned
C35_Witness ==
    /\ front = "HotkeyHandler"
    /\ keys = <<"press", "cancel", "release">>
    /\ hkpc = "idle"
    /\ cancelled = {1}
    /\ ncalls = 3
    /\ cret[1] = Returned("stop_recording", "False")

\* C36: when HotkeyHandler.start_listening() raises after it has registered
\* some of its hooks, it leaves no hook of the handler installed and
\* is_active false.
C36_FailedStartLeavesNoHook ==
    [][(\E n \in 0..(Len(HookOrder) - 1) : HotkeyHandler_start_listening(n))
          => (hooks' = {} /\ ~is_active')]_vars

\* C37: the callbacks of the AudioRecorder begin to run in the order they
\* were dispatched: on_recording_start of a session before its
\* on_recording_stop, and the callbacks of a session before those of every
\* later session.
C37_CallbacksBeginInOrder ==
    \A i, j \in 1..Len(begun) :
        i < j => \/ begun[i].sid < begun[j].sid
                 \/ /\ begun[i].sid = begun[j].sid
                    /\ begun[i].cb = "on_recording_start"
                    /\ begun[j].cb = "on_recording_stop"

\* C38: the texts of utterances completed one after the other reach the
\* clipboard in the order of the utterances: once every _process_audio
\* thread has ended, the clipboard holds the text of the latest utterance
\* whose text was copied.
C38_ClipboardHoldsLatest ==
    (/\ \A s \in Threads : ppc[s] \notin {"transcribe", "copy"}
     /\ \E s \in Threads : ppc[s] = "copied")
        => \A s \in Threads : ppc[s] = "copied" => s <= clipboard

\* C39: when several threads call _load_model at the same time, a model is
\* loaded at most once, is_loading is false whenever model_load_lock is
\* free, and every call returns.
C39_LoadOnceAndReturn ==
    /\ [](nloads <= 1)
    /\ [](model_load_lock = NoLoader => ~is_loading)
    /\ \A t \in Loaders : (lpc[t] = "acquire") ~> (lpc[t] = "returned")

\* every thread has called _load_model and returned; the first load failed
\* on the GPU and on the CPU, a later caller loaded the model, the last one
\* found it loaded
C39_Witness ==
    /\ \A t \in Loaders : lpc[t] = "returned"
    /\ \E t \in Loaders : lret[t] = "False"
    /\ nloads = 1
    /\ model = "loaded"
    /\ whisper_device = "cpu"

====
